---- MODULE Spec2Model ----
(***************************************************************************)
(* Coordination logic of the Shatranj chess application: quick-match       *)
(* matchmaking (client flow + Cloud Function pairing), the lifecycle of    *)
(* one online game document, and the tournament engine.  The shared store  *)
(* is Firestore: a runTransaction is one atomic step, every other await    *)
(* (getDoc, getDocs, setDoc, updateDoc, addDoc, deleteDoc) is a step of    *)
(* its own that other clients may interleave with.                         *)
(***************************************************************************)
EXTENDS Bags, FiniteSets, Integers, Naturals, Sequences, TLC

(***************************************************************************)
(* Bounds and program constants                                            *)
(***************************************************************************)
Users == {"u1", "u2", "u3"}
NoUser == "none"

\* the two players of the session under study and the tournament host
White == "u1"
Black == "u2"
Host == "u3"

\* the browsers that have the game open: one of each player, and a second
\* one of the first player (another tab or device signed in as the same user)
Clients == {"c1", "c2", "c3"}

\* the browsers with the VideoChat component of the game: those of the
\* players, and the one of the tournament host watching the game
SigClients == Clients \cup {"c4"}

\* user.uid in a client
Uid(c) == IF c = "c2" THEN Black ELSE IF c = "c4" THEN Host ELSE White
TimeControls == {60, 300}
MaxGames == 2
MaxTickets == 2
MaxOps == 3
MaxMoves == 2
MaxClock == 3
ClockAllotment == 2

VARIABLES
  \* ---- matchmaking: store ----
  games,        \* games collection, in createdAt order
  reqData,      \* every matchmaking_requests document ever written (id = index)
  requests,     \* ids of the matchmaking_requests documents now in the store
  consumed,     \* per game: the request ids its creating transaction deleted
  \* ---- matchmaking: one client per user (GameSetup component) ----
  pc,           \* position of the user's lobby flow
  selectedTime, \* selectedTime
  searching,    \* searching
  claimTarget,  \* gameIdToClaim / the game id of a join
  requestRef,   \* requestRefRef.current (0 = null)
  listening,    \* gameListenerUnsubRef.current is set (observer running)
  reqCreatedAt, \* reqCreatedAtSec captured by startQuickMatch
  cancelPc,     \* position of cancelQuickMatch
  ops,          \* number of client operations started so far (bounded)
  \* ---- matchmaking: Cloud Function runs, one per created request ----
  fn,
  \* ---- one online game (App component of each client) ----
  gameDoc,      \* the games/{gameId} document in the store
  gameData,     \* per client: gameData, the last snapshot delivered
  clock,        \* Date.now() / serverTimestamp(), in seconds
  \* ---- one tournament: store ----
  tourn,        \* the tournaments/{id} document
  rounds,       \* status of rounds/round_r ("none" = no such document)
  matches,      \* per round: its matches collection
  tournGames,   \* the games created for the tournament (id = index)
  credited,     \* per game: half-points credited by result reports (history)
  \* ---- one tournament: running calls of startTournament and of ----
  \* ---- updateTournamentMatchResult / checkRoundCompletion      ----
  proc,
  \* ---- video chat signaling of one game ----
  signals,      \* webrtc_signals of the games/{gameId} document
  rtc,          \* per client: the VideoChat component (refs, peer connection)
  sigHist,      \* writes of offer / answer / candidates so far (history)
  \* ---- rematch on one finished game ----
  rmGame,       \* the finished games/{gameId} document
  rmData,       \* per client: gameData, the last snapshot delivered
  rmNew,        \* the games created by accepted rematches (id = index)
  rmPc          \* per client: position of handleRematch('accept')

mmVars == <<games, reqData, requests, consumed, pc, selectedTime, searching,
            claimTarget, requestRef, listening, reqCreatedAt, cancelPc, ops, fn>>

mmVarsButOps == <<games, reqData, requests, consumed, pc, selectedTime,
                  searching, claimTarget, requestRef, listening,
                  reqCreatedAt, cancelPc, fn>>

sessVars == <<gameDoc, gameData, clock>>

tournVars == <<tourn, rounds, matches, tournGames, credited, proc>>

sigVars == <<signals, rtc, sigHist>>

rematchVars == <<rmGame, rmData, rmNew, rmPc>>

auxVars == <<sigVars, rematchVars>>

vars == <<mmVars, sessVars, tournVars, auxVars>>

\* client calls that may be in flight at the same time
Procs == {"p1", "p2"}

\* a call that is not running: no locals
IdleProc ==
  [pc |-> "idle", round |-> 0, gameId |-> 0, winnerUid |-> NoUser,
   m |-> 0, repeated |-> FALSE, players |-> <<>>, i |-> 0, j |-> 0,
   paired |-> {},
   scores |-> [u \in Users |-> 0], entries |-> {}, error |-> "none"]

\* the elements of an array
Range(arr) == {arr[k] : k \in 1..Len(arr)}

(***************************************************************************)
(* Matchmaking                                                             *)
(***************************************************************************)
\* serverTimestamp(): one tick per document creation
Now == Len(games) + Len(reqData)

\* createGame with player2 = null (handleCreateGame)
NewWaitingGame(u, tc, inv) ==
  [status |-> "waiting", player1 |-> u, player2 |-> NoUser,
   playerIds |-> {u}, timeControl |-> tc, inviteOnly |-> inv,
   createdAt |-> Now + 1]

\* the update every claim transaction writes
ClaimUpdate(g, u) ==
  [g EXCEPT !.player2 = u, !.playerIds = {g.player1, u}, !.status = "active"]

\* startQuickMatch's claim without the re-check of the status
QuickMatchCanClaim_NoRecheck(g, u) == g.player1 # u

\* startQuickMatch: the checks of the claim transaction
QuickMatchCanClaim(g, u) ==
  /\ g.status = "waiting"
  /\ g.player1 # u

\* handleJoinGame: the checks of the join transaction
JoinCanClaim(g, u) ==
  /\ g.status = "waiting"
  /\ g.player2 = NoUser
  /\ g.player1 # u

\* URL gameId effect: the checks of the join transaction
UrlCanClaim(g, u) ==
  /\ ~(g.status # "waiting" \/ g.player2 # NoUser)
  /\ g.player1 # u

\* waitingQuery: status == waiting, timeControl == selectedTime,
\* orderBy createdAt asc, limit 1  (0 when the snapshot is empty)
WaitingQuery(tc) ==
  LET hits == {i \in 1..Len(games) :
                 games[i].status = "waiting" /\ games[i].timeControl = tc}
  IN IF hits = {} THEN 0 ELSE CHOOSE i \in hits : \A j \in hits : i <= j

\* the lobby list: waiting games that are not inviteOnly
OpenGames == {i \in 1..Len(games) :
                games[i].status = "waiting" /\ ~games[i].inviteOnly}

\* onGameStart unmounts GameSetup: its cleanup effect stops the observer and
\* deletes the request requestRefRef points at; the next mount starts with
\* fresh component state
UnmountGameSetup(u) ==
  /\ requests' = requests \ {requestRef[u]}
  /\ requestRef' = [requestRef EXCEPT ![u] = 0]
  /\ listening' = [listening EXCEPT ![u] = FALSE]
  /\ searching' = [searching EXCEPT ![u] = FALSE]
  /\ reqCreatedAt' = [reqCreatedAt EXCEPT ![u] = 0]
  /\ claimTarget' = [claimTarget EXCEPT ![u] = 0]
  /\ selectedTime' = [selectedTime EXCEPT ![u] = 300]

\* what UnmountGameSetup writes, when an action leaves it alone
mountVars == <<requests, requestRef, listening, searching, reqCreatedAt,
               claimTarget, selectedTime>>

HandleCreateGame(u, tc, inv) ==
  /\ pc[u] = "lobby"
  /\ cancelPc[u] = "idle"
  /\ ops < MaxOps
  /\ Len(games) < MaxGames
  /\ ops' = ops + 1
  /\ games' = Append(games, NewWaitingGame(u, tc, inv))
  /\ consumed' = Append(consumed, {})
  /\ pc' = [pc EXCEPT ![u] = "game"]
  /\ UnmountGameSetup(u)
  /\ UNCHANGED <<sessVars, tournVars, auxVars>>
  /\ UNCHANGED <<reqData, cancelPc, fn>>

\* leaveGame: back to the lobby
LeaveGame(u) ==
  /\ pc[u] = "game"
  /\ pc' = [pc EXCEPT ![u] = "lobby"]
  /\ UNCHANGED <<sessVars, tournVars, auxVars>>
  /\ UNCHANGED <<games, consumed, reqData, cancelPc, ops, fn, mountVars>>

\* handleJoinGame: the click on a game of the lobby list
HandleJoinGameClick(u, i) ==
  /\ pc[u] = "lobby"
  /\ cancelPc[u] = "idle"
  /\ ops < MaxOps
  /\ i \in OpenGames
  /\ ops' = ops + 1
  /\ pc' = [pc EXCEPT ![u] = "join_tx"]
  /\ claimTarget' = [claimTarget EXCEPT ![u] = i]
  /\ UNCHANGED <<sessVars, tournVars, auxVars>>
  /\ UNCHANGED <<games, consumed, reqData, requests, selectedTime, searching,
                 requestRef, listening, reqCreatedAt, cancelPc, fn>>

\* handleJoinGame: the transaction; a throw is caught and the user stays
HandleJoinGameTx(u) ==
  /\ pc[u] = "join_tx"
  /\ LET i == claimTarget[u] IN
       IF JoinCanClaim(games[i], u)
         THEN /\ games' = [games EXCEPT ![i] = ClaimUpdate(games[i], u)]
              /\ pc' = [pc EXCEPT ![u] = "game"]
              /\ UnmountGameSetup(u)
         ELSE /\ games' = games
              /\ pc' = [pc EXCEPT ![u] = "lobby"]
              /\ claimTarget' = [claimTarget EXCEPT ![u] = 0]
              /\ UNCHANGED <<requests, requestRef, listening, searching,
                             reqCreatedAt, selectedTime>>
  /\ UNCHANGED <<sessVars, tournVars, auxVars>>
  /\ UNCHANGED <<consumed, reqData, cancelPc, ops, fn>>

\* URL gameId effect (page load): getDoc, then decide
UrlJoinRead(u, i) ==
  /\ pc[u] = "lobby"
  /\ cancelPc[u] = "idle"
  /\ ops < MaxOps
  /\ ~searching[u] /\ requestRef[u] = 0 /\ ~listening[u]
  /\ i \in 1..Len(games)
  /\ ops' = ops + 1
  /\ IF games[i].player1 # u /\ games[i].status = "waiting"
          /\ games[i].player2 = NoUser
       THEN /\ pc' = [pc EXCEPT ![u] = "url_tx"]
            /\ claimTarget' = [claimTarget EXCEPT ![u] = i]
       ELSE /\ pc' = [pc EXCEPT ![u] = "game"]
            /\ UNCHANGED claimTarget
  /\ UNCHANGED <<sessVars, tournVars, auxVars>>
  /\ UNCHANGED <<games, consumed, reqData, requests, selectedTime, searching,
                 requestRef, listening, reqCreatedAt, cancelPc, fn>>

\* URL gameId effect: the transaction; the game is opened either way
UrlJoinTx(u) ==
  /\ pc[u] = "url_tx"
  /\ LET i == claimTarget[u] IN
       games' = IF UrlCanClaim(games[i], u)
                  THEN [games EXCEPT ![i] = ClaimUpdate(games[i], u)]
                  ELSE games
  /\ pc' = [pc EXCEPT ![u] = "game"]
  /\ claimTarget' = [claimTarget EXCEPT ![u] = 0]
  /\ UNCHANGED <<sessVars, tournVars, auxVars>>
  /\ UNCHANGED <<consumed, reqData, requests, selectedTime, searching,
                 requestRef, listening, reqCreatedAt, cancelPc, ops, fn>>

\* startQuickMatch: setSearching(true), getDocs(waitingQuery)
QuickMatchQuery(u, tc) ==
  /\ pc[u] = "lobby"
  /\ cancelPc[u] = "idle"
  /\ ops < MaxOps
  /\ ~searching[u]
  /\ ops' = ops + 1
  /\ searching' = [searching EXCEPT ![u] = TRUE]
  /\ selectedTime' = [selectedTime EXCEPT ![u] = tc]
  /\ LET i == WaitingQuery(tc) IN
       /\ claimTarget' = [claimTarget EXCEPT ![u] = i]
       /\ pc' = [pc EXCEPT ![u] = IF i = 0 THEN "qm_add" ELSE "qm_claim"]
  /\ UNCHANGED <<sessVars, tournVars, auxVars>>
  /\ UNCHANGED <<games, consumed, reqData, requests, requestRef, listening,
                 reqCreatedAt, cancelPc, fn>>

\* startQuickMatch: the claim transaction; on a throw fall back to a request
QuickMatchClaimTx(u) ==
  /\ pc[u] = "qm_claim"
  /\ LET i == claimTarget[u] IN
       IF QuickMatchCanClaim(games[i], u)
         THEN /\ games' = [games EXCEPT ![i] = ClaimUpdate(games[i], u)]
              /\ pc' = [pc EXCEPT ![u] = "game"]
              /\ UnmountGameSetup(u)
         ELSE /\ games' = games
              /\ pc' = [pc EXCEPT ![u] = "qm_add"]
              /\ UNCHANGED mountVars
  /\ UNCHANGED <<sessVars, tournVars, auxVars>>
  /\ UNCHANGED <<consumed, reqData, cancelPc, ops, fn>>

\* startQuickMatch: addDoc(matchmaking_requests) reaches the store and
\* triggers onCreateMatchRequest for the new document
QuickMatchAddDoc(u) ==
  /\ pc[u] = "qm_add"
  /\ Len(reqData) + 1 \in DOMAIN fn
  /\ reqData' = Append(reqData, [uid |-> u, timeControl |-> selectedTime[u],
                                 createdAt |-> Now + 1])
  /\ requests' = requests \cup {Len(reqData) + 1}
  /\ fn' = [fn EXCEPT ![Len(reqData) + 1] = [pc |-> "query", partner |-> 0]]
  /\ pc' = [pc EXCEPT ![u] = "qm_added"]
  /\ claimTarget' = [claimTarget EXCEPT ![u] = Len(reqData) + 1]
  /\ selectedTime' = [selectedTime EXCEPT ![u] = 300]
  /\ UNCHANGED <<sessVars, tournVars, auxVars>>
  /\ UNCHANGED <<games, consumed, searching, requestRef, listening,
                 reqCreatedAt, cancelPc, ops>>

\* startQuickMatch: addDoc resolves: requestRefRef.current = reqRef
QuickMatchSetRef(u) ==
  /\ pc[u] = "qm_added"
  /\ requestRef' = [requestRef EXCEPT ![u] = claimTarget[u]]
  /\ pc' = [pc EXCEPT ![u] = "qm_getdoc"]
  /\ UNCHANGED <<sessVars, tournVars, auxVars>>
  /\ UNCHANGED <<games, consumed, reqData, requests, selectedTime, searching,
                 claimTarget, listening, reqCreatedAt, cancelPc, ops, fn>>

\* startQuickMatch: getDoc(reqRef) resolves, the observer is registered
QuickMatchListen(u) ==
  /\ pc[u] = "qm_getdoc"
  /\ reqCreatedAt' = [reqCreatedAt EXCEPT ![u] =
       IF claimTarget[u] \in requests THEN reqData[claimTarget[u]].createdAt
                                      ELSE Now]
  /\ listening' = [listening EXCEPT ![u] = TRUE]
  /\ claimTarget' = [claimTarget EXCEPT ![u] = 0]
  /\ pc' = [pc EXCEPT ![u] = "lobby"]
  /\ UNCHANGED <<sessVars, tournVars, auxVars>>
  /\ UNCHANGED <<games, consumed, reqData, requests, selectedTime, searching,
                 requestRef, cancelPc, ops, fn>>

\* the observer's test on one document of the gamesQuery snapshot
ObserverAccepts(g, u, since) ==
  /\ g.status = "active"
  /\ u \in g.playerIds
  /\ ~(g.createdAt + 2 < since)

\* the onSnapshot handler of startQuickMatch finds the new game
ObserveMatch(u, i) ==
  /\ listening[u]
  /\ pc[u] = "lobby"
  /\ cancelPc[u] = "idle"
  /\ i \in 1..Len(games)
  /\ ObserverAccepts(games[i], u, reqCreatedAt[u])
  /\ UnmountGameSetup(u)
  /\ pc' = [pc EXCEPT ![u] = "game"]
  /\ UNCHANGED <<sessVars, tournVars, auxVars>>
  /\ UNCHANGED <<games, consumed, reqData, cancelPc, ops, fn>>

\* cancelQuickMatch up to its await: setSearching(false), deleteDoc(ref)
CancelQuickMatch(u) ==
  /\ searching[u]
  /\ cancelPc[u] = "idle"
  /\ pc[u] # "game"
  /\ searching' = [searching EXCEPT ![u] = FALSE]
  /\ IF requestRef[u] # 0
       THEN /\ requests' = requests \ {requestRef[u]}
            /\ cancelPc' = [cancelPc EXCEPT ![u] = "deleting"]
            /\ UNCHANGED <<requestRef, listening, reqCreatedAt>>
       ELSE /\ listening' = [listening EXCEPT ![u] = FALSE]
            /\ reqCreatedAt' = [reqCreatedAt EXCEPT ![u] = 0]
            /\ UNCHANGED <<requests, requestRef, cancelPc>>
  /\ UNCHANGED <<sessVars, tournVars, auxVars>>
  /\ UNCHANGED <<games, consumed, reqData, pc, selectedTime, claimTarget,
                 ops, fn>>

\* cancelQuickMatch after deleteDoc resolved: clear the ref, unsubscribe
CancelQuickMatchFinish(u) ==
  /\ cancelPc[u] = "deleting"
  /\ cancelPc' = [cancelPc EXCEPT ![u] = "idle"]
  /\ requestRef' = [requestRef EXCEPT ![u] = 0]
  /\ listening' = [listening EXCEPT ![u] = FALSE]
  /\ reqCreatedAt' = [reqCreatedAt EXCEPT ![u] = 0]
  /\ UNCHANGED <<sessVars, tournVars, auxVars>>
  /\ UNCHANGED <<games, consumed, reqData, requests, pc, selectedTime,
                 searching, claimTarget, ops, fn>>

\* onCreateMatchRequest: where(timeControl ==).orderBy(createdAt).limit(2)
OldestTwo(tc) ==
  LET same == {r \in requests : reqData[r].timeControl = tc}
  IN {r \in same : Cardinality({q \in same : q < r}) < 2}

\* onCreateMatchRequest: otherDocs[0], 0 when otherDocs is empty
PartnerOf(reqId) ==
  LET otherDocs == OldestTwo(reqData[reqId].timeControl) \ {reqId}
  IN IF otherDocs = {} THEN 0
     ELSE CHOOSE r \in otherDocs : \A q \in otherDocs : r <= q

\* onCreateMatchRequest: the query for a partner
FnQuery(reqId) ==
  /\ fn[reqId].pc = "query"
  /\ LET p == PartnerOf(reqId) IN
       fn' = [fn EXCEPT ![reqId] =
                [pc |-> IF p = 0 THEN "waiting" ELSE "tx", partner |-> p]]
  /\ UNCHANGED <<sessVars, tournVars, auxVars>>
  /\ UNCHANGED <<games, consumed, reqData, cancelPc, ops, pc, mountVars>>

\* the pairing transaction without the exists checks
BothExist_NoCheck(reqId, partner) == TRUE

\* onCreateMatchRequest: both snapshots of the transaction exist
BothExist(reqId, partner) == reqId \in requests /\ partner \in requests

\* a new game holding the same requester in both seats
NewPairedGame_OneRequester(white, black, tc) ==
  [status |-> "active", player1 |-> white.uid, player2 |-> white.uid,
   playerIds |-> {white.uid}, timeControl |-> tc,
   inviteOnly |-> FALSE, createdAt |-> Now + 1]

\* onCreateMatchRequest: newGame
NewPairedGame(white, black, tc) ==
  [status |-> "active", player1 |-> white.uid, player2 |-> black.uid,
   playerIds |-> {white.uid, black.uid}, timeControl |-> tc,
   inviteOnly |-> FALSE, createdAt |-> Now + 1]

\* onCreateMatchRequest: the pairing transaction
FnTx(reqId, assignWhite) ==
  /\ fn[reqId].pc = "tx"
  /\ LET p == fn[reqId].partner
         req == reqData[reqId]
         partnerData == reqData[p]
     IN IF BothExist(reqId, p)
          THEN /\ Len(games) < MaxGames
               /\ games' = Append(games,
                    IF assignWhite
                      THEN NewPairedGame(req, partnerData, req.timeControl)
                      ELSE NewPairedGame(partnerData, req, req.timeControl))
               /\ consumed' = Append(consumed, {reqId, p})
               /\ requests' = requests \ {reqId, p}
               /\ fn' = [fn EXCEPT ![reqId].pc = "paired"]
          ELSE /\ fn' = [fn EXCEPT ![reqId].pc = "aborted"]
               /\ UNCHANGED <<games, consumed, requests>>
  /\ UNCHANGED <<sessVars, tournVars, auxVars>>
  /\ UNCHANGED <<reqData, pc, selectedTime, searching, claimTarget,
                 requestRef, listening, reqCreatedAt, cancelPc, ops>>

InitMatch ==
  /\ games = <<>>
  /\ reqData = <<>>
  /\ requests = {}
  /\ consumed = <<>>
  /\ pc = [u \in Users |-> "lobby"]
  /\ selectedTime = [u \in Users |-> 300]
  /\ searching = [u \in Users |-> FALSE]
  /\ claimTarget = [u \in Users |-> 0]
  /\ requestRef = [u \in Users |-> 0]
  /\ listening = [u \in Users |-> FALSE]
  /\ reqCreatedAt = [u \in Users |-> 0]
  /\ cancelPc = [u \in Users |-> "idle"]
  /\ ops = 0
  /\ fn = [r \in 1..MaxTickets |-> [pc |-> "idle", partner |-> 0]]
  \* no client has a game open
  /\ gameDoc = [status |-> "none"]
  /\ gameData = [c \in Clients |-> [status |-> "none"]]
  /\ clock = 0
  /\ signals = [offer |-> "none"]
  /\ rtc = [c \in SigClients |-> [pcRef |-> "none"]]
  /\ sigHist = <<>>
  /\ rmGame = [status |-> "none"]
  /\ rmData = [c \in Clients |-> [status |-> "none"]]
  /\ rmNew = <<>>
  /\ rmPc = [c \in Clients |-> "idle"]
  \* no tournament is open
  /\ tourn = [status |-> "none"]
  /\ rounds = <<>>
  /\ matches = <<>>
  /\ tournGames = <<>>
  /\ credited = <<>>
  /\ proc = [p \in Procs |-> IdleProc]

\* claims on open games: create, lobby join, deep-link join, quick-match claim
NextClaim ==
  \/ \E u \in Users, tc \in TimeControls, inv \in BOOLEAN :
       HandleCreateGame(u, tc, inv)
  \/ \E u \in Users : LeaveGame(u)
  \/ \E u \in Users, i \in 1..MaxGames : HandleJoinGameClick(u, i)
  \/ \E u \in Users : HandleJoinGameTx(u)
  \/ \E u \in Users, i \in 1..MaxGames : UrlJoinRead(u, i)
  \/ \E u \in Users : UrlJoinTx(u)
  \/ \E u \in Users, tc \in TimeControls : QuickMatchQuery(u, tc)
  \/ \E u \in Users : QuickMatchClaimTx(u)
  \/ \E u \in Users : QuickMatchAddDoc(u)

SpecClaim == InitMatch /\ [][NextClaim]_vars

\* request-based matching: requests, observer, cancel, Cloud Function runs
PairUsers == {"u1", "u2"}
PairTimeControls == {300}

NextPair ==
  \/ \E u \in PairUsers, tc \in PairTimeControls : QuickMatchQuery(u, tc)
  \/ \E u \in PairUsers : QuickMatchAddDoc(u)
  \/ \E u \in PairUsers : QuickMatchSetRef(u)
  \/ \E u \in PairUsers : QuickMatchListen(u)
  \/ \E u \in PairUsers, i \in 1..MaxGames : ObserveMatch(u, i)
  \/ \E u \in PairUsers : CancelQuickMatch(u)
  \/ \E u \in PairUsers : CancelQuickMatchFinish(u)
  \/ \E u \in PairUsers : LeaveGame(u)
  \/ \E r \in 1..MaxTickets : FnQuery(r)
  \/ \E r \in 1..MaxTickets, assignWhite \in BOOLEAN : FnTx(r, assignWhite)

SpecPair == InitMatch /\ [][NextPair]_vars

(***************************************************************************)
(* Claims about matchmaking                                                *)
(***************************************************************************)

\* C1: of the concurrent claim attempts on one waiting game (quick-match
\* claim, lobby join, deep-link join) exactly one fills player2 and sets the
\* game active; every later attempt leaves the game unchanged, and a
\* quick-match requester that lost the race goes on to create a request.
C1_ExactlyOneClaimWins ==
  [][ /\ \A i \in 1..Len(games) :
           games'[i] # games[i] =>
             /\ games[i].status = "waiting" /\ games[i].player2 = NoUser
             /\ games'[i].status = "active"
             /\ games'[i].player2 \in Users \ {games[i].player1}
      /\ \A u \in Users :
           ( /\ pc[u] = "qm_claim" /\ pc'[u] # "qm_claim"
             /\ games[claimTarget[u]].status # "waiting" )
           => pc'[u] = "qm_add" /\ games' = games ]_vars

\* a quick-match requester lost the race for game i to another user
C1_Witness ==
  \E u \in Users, i \in 1..Len(games) :
    /\ pc[u] = "qm_add" /\ claimTarget[u] = i
    /\ games[i].status = "active"
    /\ games[i].player1 # u
    /\ games[i].player2 \in Users \ {u}

\* C2: at most one pairing per request: no request id is consumed by two
\* created games, and a pairing transaction that finds one of its two
\* requests missing creates no game and deletes no request.
C2_AtMostOnePairingPerTicket ==
  /\ [](\A i, j \in 1..Len(consumed) :
          i # j => consumed[i] \cap consumed[j] = {})
  /\ [][ \A r \in 1..MaxTickets :
           ( /\ fn[r].pc = "tx" /\ fn'[r].pc # "tx"
             /\ (r \notin requests \/ fn[r].partner \notin requests) )
           => games' = games /\ requests' = requests ]_vars

\* a pairing run aborted after its partner had been paired or cancelled
C2_Witness ==
  \E r \in 1..MaxTickets :
    /\ fn[r].pc = "aborted"
    /\ fn[r].partner \notin requests

(***************************************************************************)
(* One online game: the games/{gameId} document, written by the clients    *)
(* that have it open.  Every client acts on gameData, its last snapshot.   *)
(* The rules engine (chess.js) is abstracted: a position is its ply count  *)
(* and whether it is terminal; which moves end the game is an input.       *)
(***************************************************************************)
Sans == {"e4", "d4"}
Outcomes == {"none", "checkmate", "draw"}


\* game.turn()
Turn(fen) == IF fen.ply % 2 = 0 THEN "w" ELSE "b"

\* createGame({player1, player2, timeControl, tournamentId})
CreateGame(player1, player2, timeControl, tournamentId) ==
  [status |-> IF player2 # NoUser THEN "active" ELSE "waiting",
   player1 |-> player1, player2 |-> player2,
   fen |-> [ply |-> 0, over |-> "none"], moves |-> <<>>,
   winner |-> NoUser, winReason |-> "null", drawOffer |-> "null",
   player1Time |-> timeControl, player2Time |-> timeControl,
   lastMoveTimestamp |-> 0, timeControl |-> timeControl,
   tournamentId |-> tournamentId]

\* myPlayerKey of GameActions
MyPlayerKey(d, u) == IF u = d.player1 THEN "player1" ELSE "player2"

OpponentPlayerKey(d, u) == IF u = d.player1 THEN "player2" ELSE "player1"

\* GameActions renders for the two players of an active game only
GameActionsShown(d, u) ==
  /\ d.status = "active"
  /\ d.player1 # NoUser /\ d.player2 # NoUser
  /\ u \in {d.player1, d.player2}

\* isMyTurn of onDrop, mode online
IsMyTurn(d, u) ==
  \/ u = d.player1 /\ Turn(d.fen) = "w"
  \/ u = d.player2 /\ Turn(d.fen) = "b"

Max(a, b) == IF a >= b THEN a ELSE b

\* onSnapshot(doc(db, 'games', gameId)): setGameData
Deliver(c) ==
  /\ gameData[c] # gameDoc
  /\ gameData' = [gameData EXCEPT ![c] = gameDoc]
  /\ UNCHANGED <<gameDoc, clock>>
  /\ UNCHANGED <<mmVars, tournVars, auxVars>>

\* time passes
Tick ==
  /\ clock < MaxClock
  /\ clock' = clock + 1
  /\ UNCHANGED <<gameDoc, gameData>>
  /\ UNCHANGED <<mmVars, tournVars, auxVars>>

\* handleJoinGame's transaction on this game
JoinSession(c) ==
  /\ Uid(c) \notin {White, Host}
  /\ JoinCanClaim(gameDoc, Uid(c))
  /\ gameDoc' = [gameDoc EXCEPT !.player2 = Uid(c), !.status = "active",
                                !.lastMoveTimestamp = clock]
  /\ UNCHANGED <<gameData, clock>>
  /\ ops < MaxOps /\ ops' = ops + 1
  /\ UNCHANGED <<mmVarsButOps, tournVars, auxVars>>

\* the gameUpdate makeMove writes with updateDoc; timeUpdate holds the
\* mover's clock only
GameUpdate(d, san, outcome, now) ==
  LET color == Turn(d.fen)
      isGameOver == outcome # "none"
      timeSinceLastMove == now - d.lastMoveTimestamp
      newMoveObj == [san |-> san, moveNumber |-> Len(d.moves) + 1]
      timeUpdate ==
        IF color = "w"
          THEN [player1Time |-> Max(0, d.player1Time - timeSinceLastMove)]
          ELSE [player2Time |-> Max(0, d.player2Time - timeSinceLastMove)]
  IN [fen |-> [ply |-> d.fen.ply + 1, over |-> outcome],
      moves |-> Append(d.moves, newMoveObj),
      status |-> IF isGameOver THEN "finished" ELSE "active",
      winner |-> IF outcome = "checkmate"
                   THEN (IF color = "w" THEN d.player1 ELSE d.player2)
                   ELSE NoUser,
      winReason |-> IF outcome = "checkmate" THEN "Checkmate"
                    ELSE IF outcome = "draw" THEN "Draw" ELSE "null",
      lastMoveTimestamp |-> now,
      drawOffer |-> "null"] @@ timeUpdate

\* updateDoc: the fields of the update replace those of the document
UpdateDoc(d, upd) ==
  [f \in DOMAIN d |-> IF f \in DOMAIN upd THEN upd[f] ELSE d[f]]

\* await updateDoc(gameRef, upd) by client c: the store merges the fields,
\* and the writer's own onSnapshot listener sees its pending write at once
\* (its snapshot is its cached document with the write applied)
ClientUpdateDoc(c, upd) ==
  /\ gameDoc' = UpdateDoc(gameDoc, upd)
  /\ gameData' = [gameData EXCEPT ![c] = UpdateDoc(gameData[c], upd)]

\* onDrop + makeMove, mode online: guards on the snapshot, one updateDoc
OnDrop(c, san, outcome) ==
  LET d == gameData[c] IN
  /\ d.status = "active"
  /\ IsMyTurn(d, Uid(c))
  /\ d.fen.over = "none"
  /\ Len(d.moves) < MaxMoves
  /\ ClientUpdateDoc(c, GameUpdate(d, san, outcome, clock))
  /\ UNCHANGED clock
  /\ ops < MaxOps /\ ops' = ops + 1
  /\ UNCHANGED <<mmVarsButOps, tournVars, auxVars>>

\* GameActions.handleResign
HandleResign(c) ==
  LET d == gameData[c] IN
  /\ GameActionsShown(d, Uid(c))
  /\ d.drawOffer = "null"
  /\ ClientUpdateDoc(c,
       [status |-> "finished",
        winner |-> IF MyPlayerKey(d, Uid(c)) = "player1" THEN d.player2
                                                    ELSE d.player1,
        winReason |-> "Resignation"])
  /\ UNCHANGED clock
  /\ ops < MaxOps /\ ops' = ops + 1
  /\ UNCHANGED <<mmVarsButOps, tournVars, auxVars>>

\* GameActions.handleOfferDraw
HandleOfferDraw(c) ==
  LET d == gameData[c] IN
  /\ GameActionsShown(d, Uid(c))
  /\ d.drawOffer = "null"
  /\ ClientUpdateDoc(c, [drawOffer |-> MyPlayerKey(d, Uid(c))])
  /\ UNCHANGED clock
  /\ ops < MaxOps /\ ops' = ops + 1
  /\ UNCHANGED <<mmVarsButOps, tournVars, auxVars>>

\* GameActions.handleAcceptDraw
HandleAcceptDraw(c) ==
  LET d == gameData[c] IN
  /\ GameActionsShown(d, Uid(c))
  /\ d.drawOffer = OpponentPlayerKey(d, Uid(c))
  /\ ClientUpdateDoc(c,
       [status |-> "finished", winner |-> NoUser,
        winReason |-> "Draw by Agreement", drawOffer |-> "null"])
  /\ UNCHANGED clock
  /\ ops < MaxOps /\ ops' = ops + 1
  /\ UNCHANGED <<mmVarsButOps, tournVars, auxVars>>

\* GameActions.handleDeclineDraw, the offer written back as it was shown
HandleDeclineDraw_KeepsOffer(c) ==
  LET d == gameData[c] IN
  /\ GameActionsShown(d, Uid(c))
  /\ d.drawOffer = OpponentPlayerKey(d, Uid(c))
  /\ ClientUpdateDoc(c, [drawOffer |-> d.drawOffer])
  /\ UNCHANGED clock
  /\ ops < MaxOps /\ ops' = ops + 1
  /\ UNCHANGED <<mmVarsButOps, tournVars, auxVars>>

\* GameActions.handleDeclineDraw
HandleDeclineDraw(c) ==
  LET d == gameData[c] IN
  /\ GameActionsShown(d, Uid(c))
  /\ d.drawOffer = OpponentPlayerKey(d, Uid(c))
  /\ ClientUpdateDoc(c, [drawOffer |-> "null"])
  /\ UNCHANGED clock
  /\ ops < MaxOps /\ ops' = ops + 1
  /\ UNCHANGED <<mmVarsButOps, tournVars, auxVars>>

\* GameClocks: the color whose derived clock has run out, "none" otherwise
Expired(d, now) ==
  LET elapsed == Max(0, now - d.lastMoveTimestamp)
      curWhite == Max(0, d.player1Time
                         - (IF Turn(d.fen) = "w" THEN elapsed ELSE 0))
      curBlack == Max(0, d.player2Time
                         - (IF Turn(d.fen) = "b" THEN elapsed ELSE 0))
  IN IF d.status # "active" \/ d.fen.over # "none" THEN "none"
     ELSE IF curWhite <= 0 THEN "white"
     ELSE IF curBlack <= 0 THEN "black" ELSE "none"

\* GameClocks interval tick calling onTimeout -> handleTimeout: the guard
\* on the snapshot and the updateDoc
HandleTimeout(c) ==
  LET d == gameData[c]
      color == Expired(d, clock)
  IN /\ color # "none"
     /\ d.status = "active"
     /\ ClientUpdateDoc(c,
          [status |-> "finished",
           winner |-> IF color = "white" THEN d.player2 ELSE d.player1,
           winReason |-> "Timeout"])
     /\ UNCHANGED clock
     /\ ops < MaxOps /\ ops' = ops + 1
  /\ UNCHANGED <<mmVarsButOps, tournVars, auxVars>>

\* TournamentLobby.handleForceResult: the host's updateDoc on the game
HandleForceResult(winnerUid) ==
  /\ gameDoc.tournamentId # "null"
  /\ gameDoc.status # "waiting"
  /\ gameDoc' = UpdateDoc(gameDoc,
       [status |-> "finished", winner |-> winnerUid,
        winReason |-> "Admin Decision"])
  /\ UNCHANGED <<gameData, clock>>
  /\ ops < MaxOps /\ ops' = ops + 1
  /\ UNCHANGED <<mmVarsButOps, tournVars, auxVars>>

\* a lobby game waiting for its second player, or a tournament game
InitSession ==
  /\ \E t \in {"null", "t1"} :
       gameDoc = CreateGame(White, IF t = "null" THEN NoUser ELSE Black,
                            ClockAllotment, t)
  /\ gameData = [c \in Clients |-> gameDoc]
  /\ clock = 0
  /\ signals = [offer |-> "none"]
  /\ rtc = [c \in SigClients |-> [pcRef |-> "none"]]
  /\ sigHist = <<>>
  /\ rmGame = [status |-> "none"]
  /\ rmData = [c \in Clients |-> [status |-> "none"]]
  /\ rmNew = <<>>
  /\ rmPc = [c \in Clients |-> "idle"]
  \* the lobby flows are not running
  /\ games = <<>>
  /\ reqData = <<>>
  /\ requests = {}
  /\ consumed = <<>>
  /\ pc = [u \in Users |-> "game"]
  /\ selectedTime = [u \in Users |-> 300]
  /\ searching = [u \in Users |-> FALSE]
  /\ claimTarget = [u \in Users |-> 0]
  /\ requestRef = [u \in Users |-> 0]
  /\ listening = [u \in Users |-> FALSE]
  /\ reqCreatedAt = [u \in Users |-> 0]
  /\ cancelPc = [u \in Users |-> "idle"]
  /\ ops = 0
  /\ fn = [r \in 1..MaxTickets |-> [pc |-> "idle", partner |-> 0]]
  \* no tournament is open
  /\ tourn = [status |-> "none"]
  /\ rounds = <<>>
  /\ matches = <<>>
  /\ tournGames = <<>>
  /\ credited = <<>>
  /\ proc = [p \in Procs |-> IdleProc]

NextSession ==
  \/ \E c \in Clients : Deliver(c)
  \/ Tick
  \/ \E c \in Clients : JoinSession(c)
  \/ \E c \in Clients, san \in Sans, outcome \in Outcomes :
       OnDrop(c, san, outcome)
  \/ \E c \in Clients : HandleResign(c)
  \/ \E c \in Clients : HandleOfferDraw(c)
  \/ \E c \in Clients : HandleAcceptDraw(c)
  \/ \E c \in Clients : HandleDeclineDraw(c)
  \/ \E c \in Clients : HandleTimeout(c)
  \/ \E w \in {White, Black, NoUser} : HandleForceResult(w)

SpecSession == InitSession /\ [][NextSession]_vars

(***************************************************************************)
(* Claims about one game                                                   *)
(***************************************************************************)

\* C3: the status of a game only moves forward, waiting -> active ->
\* finished: no step changes a finished game back to active or waiting, or
\* an active game back to waiting, also when the acting client's snapshot
\* is stale.
C3_StatusMonotonic ==
  [][ /\ gameDoc.status = "finished" => gameDoc'.status = "finished"
      /\ gameDoc.status = "active" => gameDoc'.status # "waiting" ]_vars

\* C4: a timeout report against a game that is already finished in the
\* store changes no field of the game.
C4_TimeoutIdempotent ==
  [][ ( /\ gameDoc.status = "finished"
        /\ \E c \in Clients : HandleTimeout(c) )
      => gameDoc' = gameDoc ]_vars

(***************************************************************************)
(* The tournament engine: startTournament, updateTournamentMatchResult and *)
(* checkRoundCompletion, run by clients (the host and the players of the   *)
(* tournament's games).  Scores are counted in half-points.  A game of the *)
(* tournament is reduced to its status, its players and its winner; a      *)
(* client that finishes a game goes on to report the result.               *)
(***************************************************************************)
\* incrementTournamentScore(.., 1) and (.., 0.5), in half-points
Point == 2
HalfPoint == 1

\* the player lists a lobby can hold when the host presses Start
Lobbies == {<<"u1", "u2">>, <<"u1", "u2", "u3">>}

\* Math.ceil(Math.log2(n))
RECURSIVE CeilLog2From(_, _)
CeilLog2From(n, k) == IF 2^k >= n THEN k ELSE CeilLog2From(n, k + 1)

CeilLog2(n) == CeilLog2From(n, 0)

\* maxRounds of checkRoundCompletion
MaxRoundsOf(players) ==
  LET n == IF Len(players) = 0 THEN 2 ELSE Len(players)
  IN CeilLog2(n) + (IF Len(players) > 4 THEN 1 ELSE 0)

\* the rounds a tournament of these lobbies can create
NumRounds == MaxRoundsOf(<<"u1", "u2", "u3">>)

\* shuffle(players): the order drawn is an input; two orders are explored,
\* the list as joined and the list reversed
Shuffles(players) ==
  {players, [k \in 1..Len(players) |-> players[Len(players) + 1 - k]]}

\* Array.prototype.sort with (a, b) => scores[b] - scores[a]: stable,
\* descending by score
RECURSIVE SortByScore(_, _)
SortByScore(players, scores) ==
  IF players = <<>> THEN <<>>
  ELSE LET n == Len(players)
           front == SortByScore(SubSeq(players, 1, n - 1), scores)
           x == players[n]
           keep == {k \in 1..Len(front) : scores[front[k]] >= scores[x]}
           at == Cardinality(keep)
       IN SubSeq(front, 1, at) \o <<x>> \o SubSeq(front, at + 1, Len(front))

\* the bye match document
ByeMatch(uid) ==
  [playerWhite |-> uid, playerBlack |-> NoUser, gameId |-> 0,
   status |-> "completed", winnerId |-> uid, isBye |-> TRUE]

\* the match document of a paired game
PairMatch(p1, p2, gameId) ==
  [playerWhite |-> p1, playerBlack |-> p2, gameId |-> gameId,
   status |-> "ongoing", winnerId |-> NoUser, isBye |-> FALSE]

\* createGame({player1, player2, tournamentId, tournamentRound})
TournGame(p1, p2, round) ==
  LET g == CreateGame(p1, p2, ClockAllotment, "t1")
  IN [status |-> g.status, player1 |-> g.player1, player2 |-> g.player2,
      winner |-> g.winner, tournamentRound |-> round]

\* the transaction of incrementTournamentScore
IncrementTournamentScore(t, uid, inc) ==
  [t EXCEPT !.scores[uid] = @ + inc, !.entries = @ \cup {uid}]

\* the frame of a tournament step that starts no new call
TournFrame == UNCHANGED <<mmVars, sessVars, auxVars>>

\* ---- startTournament ----
\* the checks of startTournament, the status not looked at
CanStart_AnyStatus(t) == Len(t.players) >= 2

\* the checks of startTournament: status 'lobby' and at least 2 players
CanStart(t) == t.status = "lobby" /\ Len(t.players) >= 2

\* getDoc, the checks, the local scores (an entry for every player read) and
\* the shuffle
StartRead(p, q) ==
  /\ proc[p].pc = "idle"
  /\ ops < MaxOps /\ ops' = ops + 1
  /\ CanStart(tourn)
  /\ q \in Shuffles(tourn.players)
  /\ proc' = [proc EXCEPT ![p] =
       [IdleProc EXCEPT !.pc = "st_round", !.round = 1, !.players = q,
                        !.i = 1, !.scores = tourn.scores,
                        !.entries = tourn.entries \cup Range(tourn.players)]]
  /\ UNCHANGED <<tourn, rounds, matches, tournGames, credited>>
  /\ UNCHANGED <<mmVarsButOps, sessVars, auxVars>>

\* setDoc(roundRef, {index: 1, status: 'ongoing'})
StartSetRound(p) ==
  /\ proc[p].pc = "st_round"
  /\ rounds' = [rounds EXCEPT ![1] = "ongoing"]
  /\ proc' = [proc EXCEPT ![p].pc = "st_pair"]
  /\ UNCHANGED <<tourn, matches, tournGames, credited>>
  /\ TournFrame

\* the first await of a pairing iteration: the bye's setDoc, or createGame
StartPair(p) ==
  LET l == proc[p] IN
  /\ l.pc = "st_pair"
  /\ IF l.i + 1 > Len(l.players)
       THEN /\ matches' = [matches EXCEPT
                             ![1] = Append(@, ByeMatch(l.players[l.i]))]
            /\ proc' = [proc EXCEPT ![p].pc = "st_bye_score"]
            /\ UNCHANGED tournGames
       ELSE /\ tournGames' = Append(tournGames,
                 TournGame(l.players[l.i], l.players[l.i + 1], 1))
            /\ proc' = [proc EXCEPT ![p].pc = "st_match",
                                    ![p].gameId = Len(tournGames) + 1]
            /\ UNCHANGED matches
  /\ credited' = IF Len(tournGames') > Len(tournGames)
                   THEN Append(credited, 0) ELSE credited
  /\ UNCHANGED <<tourn, rounds>>
  /\ TournFrame

\* setDoc(matchRef, {..., gameId, status: 'ongoing'}); the loop goes on, or
\* the next await is the final updateDoc
StartSetMatch(p) ==
  LET l == proc[p] IN
  /\ l.pc = "st_match"
  /\ matches' = [matches EXCEPT ![1] =
       Append(@, PairMatch(l.players[l.i], l.players[l.i + 1], l.gameId))]
  /\ proc' = [proc EXCEPT
       ![p].pc = IF l.i + 2 > Len(l.players) THEN "st_finish" ELSE "st_pair",
       ![p].i = l.i + 2, ![p].gameId = 0]
  /\ UNCHANGED <<tourn, rounds, tournGames, credited>>
  /\ TournFrame

\* await incrementTournamentScore(tournamentId, p1.uid, 1) for the bye
StartByeScore(p) ==
  LET l == proc[p] IN
  /\ l.pc = "st_bye_score"
  /\ tourn' = IncrementTournamentScore(tourn, l.players[l.i], Point)
  /\ proc' = [proc EXCEPT ![p].pc = "st_finish", ![p].i = l.i + 2]
  /\ UNCHANGED <<rounds, matches, tournGames, credited>>
  /\ TournFrame

\* updateDoc(tRef, {status: 'ongoing', currentRound: 1, scores})
StartFinish(p) ==
  /\ proc[p].pc = "st_finish"
  /\ tourn' = [tourn EXCEPT !.status = "ongoing", !.currentRound = 1,
                            !.scores = proc[p].scores,
                            !.entries = proc[p].entries]
  /\ proc' = [proc EXCEPT ![p] = IdleProc]
  /\ UNCHANGED <<rounds, matches, tournGames, credited>>
  /\ TournFrame

\* ---- a game of the tournament ends; updateTournamentMatchResult ----
\* the match of the round that carries this gameId (0 = matchSnap.empty)
MatchOfGame(round, gameId) ==
  LET found == {k \in 1..Len(matches[round]) :
                  matches[round][k].gameId = gameId}
  IN IF found = {} THEN 0 ELSE CHOOSE k \in found : TRUE

\* history: this call is made after the calls for the matches of the round
\* have run to their end, round completion included, with no call running
IsRepeat(p, round) ==
  /\ \A o \in Procs \ {p} : proc[o].pc = "idle"
  /\ rounds[round] = "completed"

\* makeMove / handleResign / handleAcceptDraw / handleTimeout /
\* handleForceResult: the updateDoc that finishes the game.  A client whose
\* snapshot is stale finishes an already finished game again, with the
\* same result (both players report one timeout).
FinishGame(p, g, w) ==
  /\ proc[p].pc = "idle"
  /\ ops < MaxOps /\ ops' = ops + 1
  /\ g \in 1..Len(tournGames)
  /\ IF tournGames[g].status = "active"
       THEN w \in {tournGames[g].player1, tournGames[g].player2, NoUser}
       ELSE w = tournGames[g].winner
  /\ tournGames' = [tournGames EXCEPT ![g].status = "finished",
                                      ![g].winner = w]
  /\ proc' = [proc EXCEPT ![p] =
       [IdleProc EXCEPT !.pc = "utm_query",
                        !.round = tournGames[g].tournamentRound,
                        !.gameId = g, !.winnerUid = w,
                        !.repeated =
                          IsRepeat(p, tournGames[g].tournamentRound)]]
  /\ UNCHANGED <<tourn, rounds, matches, credited>>
  /\ UNCHANGED <<mmVarsButOps, sessVars, auxVars>>

\* getDocs(matchesCol where gameId == gameId); "Prevent double updates"
UtmQuery(p) ==
  LET l == proc[p]
      k == MatchOfGame(l.round, l.gameId)
  IN /\ l.pc = "utm_query"
     /\ proc' = [proc EXCEPT ![p] =
          IF k = 0 THEN IdleProc
          ELSE IF matches[l.round][k].status = "completed"
            THEN [l EXCEPT !.pc = "crc_read", !.m = k]
            ELSE [l EXCEPT !.pc = "utm_update", !.m = k]]
     /\ UNCHANGED <<tourn, rounds, matches, tournGames, credited>>
     /\ TournFrame

\* updateDoc(matchRef, {status: 'completed', winnerId: winnerUid})
UtmUpdate(p) ==
  LET l == proc[p] IN
  /\ l.pc = "utm_update"
  /\ matches' = [matches EXCEPT ![l.round][l.m].status = "completed",
                                ![l.round][l.m].winnerId = l.winnerUid]
  /\ proc' = [proc EXCEPT ![p].pc = "utm_score1"]
  /\ UNCHANGED <<tourn, rounds, tournGames, credited>>
  /\ TournFrame

\* the winner's point, or white's half of a draw
UtmScore1(p) ==
  LET l == proc[p]
      mData == matches[l.round][l.m]
  IN /\ l.pc = "utm_score1"
     /\ IF l.winnerUid # NoUser
          THEN /\ tourn' = IncrementTournamentScore(tourn, l.winnerUid, Point)
               /\ credited' = [credited EXCEPT ![l.gameId] = @ + Point]
               /\ proc' = [proc EXCEPT ![p].pc = "crc_read"]
          ELSE /\ tourn' = IncrementTournamentScore(tourn, mData.playerWhite,
                                                    HalfPoint)
               /\ credited' = [credited EXCEPT ![l.gameId] = @ + HalfPoint]
               /\ proc' = [proc EXCEPT ![p].pc = "utm_score2"]
     /\ UNCHANGED <<rounds, matches, tournGames>>
     /\ TournFrame

\* black's half of a draw
UtmScore2(p) ==
  LET l == proc[p]
      mData == matches[l.round][l.m]
  IN /\ l.pc = "utm_score2"
     /\ tourn' = IncrementTournamentScore(tourn, mData.playerBlack, HalfPoint)
     /\ credited' = [credited EXCEPT ![l.gameId] = @ + HalfPoint]
     /\ proc' = [proc EXCEPT ![p].pc = "crc_read"]
     /\ UNCHANGED <<rounds, matches, tournGames>>
     /\ TournFrame

\* ---- checkRoundCompletion ----
\* allMatches.length === 0 || allMatches.length !== completedMatches.length
RoundNotComplete(allMatches) ==
  \/ Len(allMatches) = 0
  \/ \E k \in 1..Len(allMatches) : allMatches[k].status # "completed"

\* getDocs(query(matchesCol)) and the early return
CrcRead(p) ==
  LET l == proc[p] IN
  /\ l.pc = "crc_read"
  /\ proc' = [proc EXCEPT ![p] =
       IF RoundNotComplete(matches[l.round]) THEN IdleProc
       ELSE [l EXCEPT !.pc = "crc_tx"]]
  /\ UNCHANGED <<tourn, rounds, matches, tournGames, credited>>
  /\ TournFrame

\* the transaction: if (tData.currentRound !== roundIndex) return
CrcTxSkip(p) ==
  LET l == proc[p] IN
  /\ l.pc = "crc_tx"
  /\ tourn.currentRound # l.round
  /\ proc' = [proc EXCEPT ![p].pc = "crc_get"]
  /\ UNCHANGED <<tourn, rounds, matches, tournGames, credited>>
  /\ TournFrame

\* the winner taken as the first player of the join order
WinnerId_FirstJoined(t) == t.players[1]

\* sortedPlayers[0]?.uid of the players sorted by score, descending
WinnerId(t) == SortByScore(t.players, t.scores)[1]

\* the transaction: roundIndex >= maxRounds, the tournament ends
CrcTxComplete(p) ==
  LET l == proc[p] IN
     /\ l.pc = "crc_tx"
     /\ tourn.currentRound = l.round
     /\ l.round >= MaxRoundsOf(tourn.players)
     /\ tourn' = [tourn EXCEPT !.status = "completed",
                               !.winnerId = WinnerId(tourn)]
     /\ rounds' = [rounds EXCEPT ![l.round] = "completed"]
     /\ proc' = [proc EXCEPT ![p].pc = "crc_get"]
     /\ UNCHANGED <<matches, tournGames, credited>>
     /\ TournFrame

\* the transaction: the next round document, currentRound + 1
CrcTxAdvance(p) ==
  LET l == proc[p] IN
  /\ l.pc = "crc_tx"
  /\ tourn.currentRound = l.round
  /\ l.round < MaxRoundsOf(tourn.players)
  /\ rounds' = [rounds EXCEPT ![l.round + 1] = "ongoing",
                              ![l.round] = "completed"]
  /\ tourn' = [tourn EXCEPT !.currentRound = l.round + 1]
  /\ proc' = [proc EXCEPT ![p].pc = "crc_get"]
  /\ UNCHANGED <<matches, tournGames, credited>>
  /\ TournFrame

\* let players = [...tData.players].sort(by score, descending)
Standings(t) == SortByScore(t.players, t.scores)

\* the next index >= from of the loop whose player is not in paired (0: none)
NextUnpaired(players, paired, from) ==
  LET free == {k \in from..Len(players) : players[k] \notin paired}
  IN IF free = {} THEN 0 ELSE CHOOSE k \in free : \A o \in free : k <= o

\* 2. getDoc(tRef), the two returns, the players sorted by score
CrcGet(p) ==
  LET l == proc[p] IN
  /\ l.pc = "crc_get"
  /\ proc' = [proc EXCEPT ![p] =
       IF tourn.currentRound # l.round + 1 \/ tourn.status = "completed"
         THEN IdleProc
         ELSE [l EXCEPT !.pc = "crc_pair", !.m = 0,
                        !.players = Standings(tourn),
                        !.scores = tourn.scores,
                        !.i = 1, !.paired = {}]]
  /\ UNCHANGED <<tourn, rounds, matches, tournGames, credited>>
  /\ TournFrame

\* the first await of a pairing iteration: the bye's setDoc, or createGame
CrcPair(p) ==
  LET l == proc[p]
      p1 == l.players[l.i]
      j == NextUnpaired(l.players, l.paired \cup {p1}, l.i + 1)
  IN /\ l.pc = "crc_pair"
     /\ IF j = 0
          THEN /\ matches' = [matches EXCEPT
                                ![l.round + 1] = Append(@, ByeMatch(p1))]
               /\ proc' = [proc EXCEPT ![p].pc = "crc_bye_score",
                                       ![p].paired = l.paired \cup {p1}]
               /\ UNCHANGED tournGames
          ELSE /\ tournGames' = Append(tournGames,
                    TournGame(p1, l.players[j], l.round + 1))
               /\ proc' = [proc EXCEPT
                    ![p].pc = "crc_match", ![p].j = j,
                    ![p].paired = l.paired \cup {p1, l.players[j]},
                    ![p].gameId = Len(tournGames) + 1]
               /\ UNCHANGED matches
     /\ credited' = IF Len(tournGames') > Len(tournGames)
                      THEN Append(credited, 0) ELSE credited
     /\ UNCHANGED <<tourn, rounds>>
     /\ TournFrame

\* where the loop stands after an iteration: the next unpaired player, or
\* the end of checkRoundCompletion
AfterIteration(l) ==
  LET k == NextUnpaired(l.players, l.paired, l.i + 1)
  IN IF k = 0 THEN IdleProc
     ELSE [l EXCEPT !.pc = "crc_pair", !.i = k, !.j = 0, !.gameId = 0]

\* setDoc(matchRef, {..., gameId, status: 'ongoing'})
CrcSetMatch(p) ==
  LET l == proc[p] IN
  /\ l.pc = "crc_match"
  /\ matches' = [matches EXCEPT ![l.round + 1] =
       Append(@, PairMatch(l.players[l.i], l.players[l.j], l.gameId))]
  /\ proc' = [proc EXCEPT ![p] = AfterIteration(l)]
  /\ UNCHANGED <<tourn, rounds, tournGames, credited>>
  /\ TournFrame

\* await incrementTournamentScore(tournamentId, p1.uid, 1) for the bye
CrcByeScore(p) ==
  LET l == proc[p] IN
  /\ l.pc = "crc_bye_score"
  /\ tourn' = IncrementTournamentScore(tourn, l.players[l.i], Point)
  /\ proc' = [proc EXCEPT ![p] = AfterIteration(l)]
  /\ UNCHANGED <<rounds, matches, tournGames, credited>>
  /\ TournFrame

\* a tournament in its lobby, the players of one of the lists L joined (each
\* with its entry in the scores map), nothing else running
TournamentInLobby(L) ==
  /\ \E players \in L :
       tourn = [status |-> "lobby", currentRound |-> 0, players |-> players,
                scores |-> [u \in Users |-> 0], entries |-> Range(players),
                winnerId |-> NoUser]
  /\ rounds = [r \in 1..NumRounds |-> "none"]
  /\ matches = [r \in 1..NumRounds |-> <<>>]
  /\ tournGames = <<>>
  /\ credited = <<>>
  /\ proc = [p \in Procs |-> IdleProc]
  \* the lobby flows are not running, no game is open
  /\ games = <<>>
  /\ reqData = <<>>
  /\ requests = {}
  /\ consumed = <<>>
  /\ pc = [u \in Users |-> "tournament"]
  /\ selectedTime = [u \in Users |-> 300]
  /\ searching = [u \in Users |-> FALSE]
  /\ claimTarget = [u \in Users |-> 0]
  /\ requestRef = [u \in Users |-> 0]
  /\ listening = [u \in Users |-> FALSE]
  /\ reqCreatedAt = [u \in Users |-> 0]
  /\ cancelPc = [u \in Users |-> "idle"]
  /\ ops = 0
  /\ fn = [r \in 1..MaxTickets |-> [pc |-> "idle", partner |-> 0]]
  /\ gameDoc = [status |-> "none"]
  /\ gameData = [c \in Clients |-> [status |-> "none"]]
  /\ clock = 0
  /\ signals = [offer |-> "none"]
  /\ rtc = [c \in SigClients |-> [pcRef |-> "none"]]
  /\ sigHist = <<>>
  /\ rmGame = [status |-> "none"]
  /\ rmData = [c \in Clients |-> [status |-> "none"]]
  /\ rmNew = <<>>
  /\ rmPc = [c \in Clients |-> "idle"]

InitTourn == TournamentInLobby(Lobbies)

\* ---- startTournament rejected, joinTournament ----
\* getDoc and a failed check: startTournament throws before any write
StartReject(p) ==
  /\ proc[p].pc = "idle"
  /\ ops < MaxOps /\ ops' = ops + 1
  /\ ~CanStart(tourn)
  /\ proc' = [proc EXCEPT ![p] =
       [IdleProc EXCEPT !.error =
          IF tourn.status # "lobby" THEN "Tournament already started"
          ELSE "Need at least 2 players to start"]]
  /\ UNCHANGED <<tourn, rounds, matches, tournGames, credited>>
  /\ UNCHANGED <<mmVarsButOps, sessVars, auxVars>>

\* joinTournament, one transaction: the user is appended unless already a
\* player, gets a zero score unless it has an entry, and players and scores
\* are written; the status is not looked at.  maxPlayers is not reached.
JoinTournament(u) ==
  /\ tourn' = [tourn EXCEPT
       !.players = IF u \in Range(@) THEN @ ELSE Append(@, u),
       !.scores[u] = IF u \in tourn.entries THEN @ ELSE 0,
       !.entries = @ \cup {u}]
  /\ UNCHANGED <<rounds, matches, tournGames, credited, proc>>
  /\ TournFrame

\* the lobby of a host who waits alone, and the lobbies that can start
InitStart == TournamentInLobby({<<"u1">>} \cup Lobbies)

NextStart ==
  \/ \E p \in Procs, q \in Shuffles(tourn.players) : StartRead(p, q)
  \/ \E p \in Procs : StartReject(p)
  \/ \E p \in Procs : StartSetRound(p)
  \/ \E p \in Procs : StartPair(p)
  \/ \E p \in Procs : StartSetMatch(p)
  \/ \E p \in Procs : StartByeScore(p)
  \/ \E p \in Procs : StartFinish(p)
  \/ \E u \in Users : JoinTournament(u)

SpecStart == InitStart /\ [][NextStart]_vars

NextTourn ==
  \/ \E p \in Procs, q \in Shuffles(tourn.players) : StartRead(p, q)
  \/ \E p \in Procs : StartSetRound(p)
  \/ \E p \in Procs : StartPair(p)
  \/ \E p \in Procs : StartSetMatch(p)
  \/ \E p \in Procs : StartByeScore(p)
  \/ \E p \in Procs : StartFinish(p)
  \/ \E p \in Procs, g \in 1..Len(tournGames), w \in Users \cup {NoUser} :
       FinishGame(p, g, w)
  \/ \E p \in Procs : UtmQuery(p)
  \/ \E p \in Procs : UtmUpdate(p)
  \/ \E p \in Procs : UtmScore1(p)
  \/ \E p \in Procs : UtmScore2(p)
  \/ \E p \in Procs : CrcRead(p)
  \/ \E p \in Procs : CrcTxSkip(p)
  \/ \E p \in Procs : CrcTxComplete(p)
  \/ \E p \in Procs : CrcTxAdvance(p)
  \/ \E p \in Procs : CrcGet(p)
  \/ \E p \in Procs : CrcPair(p)
  \/ \E p \in Procs : CrcSetMatch(p)
  \/ \E p \in Procs : CrcByeScore(p)

SpecTourn == InitTourn /\ [][NextTourn]_vars

(***************************************************************************)
(* Claims about the tournament engine                                      *)
(***************************************************************************)

\* C5: however many clients report the result of one tournament match, its
\* points are credited once: never more than one point in total for the
\* game, and exactly one point once the reports have run.
C5_CreditedExactlyOnce ==
  \A g \in 1..Len(tournGames) :
    /\ credited[g] <= Point
    /\ ( /\ \A p \in Procs : proc[p].pc = "idle"
         /\ \E k \in 1..Len(matches[tournGames[g].tournamentRound]) :
              LET mData == matches[tournGames[g].tournamentRound][k]
              IN mData.gameId = g /\ mData.status = "completed" )
       => credited[g] = Point

\* C6: a call of updateTournamentMatchResult made for a match after the
\* first call for it has run to its end changes no score in any of its
\* steps.
C6_RepeatedResultKeepsScores ==
  [][ \A p \in Procs :
        (proc[p].repeated /\ proc'[p] # proc[p])
        => tourn'.scores = tourn.scores ]_vars

\* C7: currentRound only moves from r to r + 1 and never back, so each
\* round is advanced at most once; the tournament is marked completed at
\* most once; a round-completion transaction that reads a currentRound
\* other than its round writes nothing.
C7_AdvanceAndCompleteOnce ==
  [][ /\ tourn'.currentRound # tourn.currentRound
           => tourn'.currentRound = tourn.currentRound + 1
      /\ \A p \in Procs : CrcTxComplete(p) => tourn.status # "completed"
      /\ \A p \in Procs :
           ( /\ proc[p].pc = "crc_tx" /\ proc'[p].pc # "crc_tx"
             /\ tourn.currentRound # proc[p].round )
           => UNCHANGED <<tourn, rounds, matches>> ]_vars

\* C8: a step of round completion that advances currentRound from a round,
\* or completes the tournament, is taken only when every match of that
\* round in the store is completed.
C8_AdvanceOnlyWhenRoundComplete ==
  [][ \A p \in Procs :
        (CrcTxAdvance(p) \/ CrcTxComplete(p))
        => ~RoundNotComplete(matches[proc[p].round]) ]_vars

\* C9: in every round no player appears in two matches and there is at most
\* one bye; once no call is running, every player of the tournament is in
\* a match of each round created.
C9_MatchesPartitionPlayers ==
  \A r \in 1..NumRounds :
    LET of(u) == {k \in 1..Len(matches[r]) :
                    u \in {matches[r][k].playerWhite,
                           matches[r][k].playerBlack}}
        byes == {k \in 1..Len(matches[r]) : matches[r][k].isBye}
    IN /\ \A u \in Users : Cardinality(of(u)) <= 1
       /\ Cardinality(byes) <= 1
       /\ ( /\ \A p \in Procs : proc[p].pc = "idle"
            /\ matches[r] # <<>> )
          => \A k \in 1..Len(tourn.players) :
               Cardinality(of(tourn.players[k])) = 1

\* C10: when startTournament, running alone on an odd number of players
\* with no game finished yet, takes its last step, round 1 holds a bye
\* match for the trailing player (completed, won by that player, no game)
\* and the scores it leaves are one point for that player, zero for the
\* others.
C10_ByeScoredAtStart ==
  [][ \A p \in Procs :
        ( /\ StartFinish(p)
          /\ Len(tourn.players) % 2 = 1
          /\ \A o \in Procs \ {p} : proc[o].pc = "idle"
          /\ \A g \in 1..Len(tournGames) : tournGames[g].status = "active" )
        => LET bye == proc[p].players[Len(proc[p].players)]
           IN /\ \E k \in 1..Len(matches[1]) :
                   matches[1][k] = ByeMatch(bye)
              /\ tourn'.scores[bye] = Point
              /\ \A u \in Users \ {bye} : tourn'.scores[u] = 0 ]_vars

\* C11: when startTournament takes its last step on N >= 2 players, round 1
\* holds exactly N \div 2 matches with a game and one bye match iff N is
\* odd, and the step leaves status ongoing and currentRound 1.
C11_RoundOneMatchCount ==
  [][ \A p \in Procs :
        StartFinish(p)
        => LET n == Len(tourn.players)
               withGame == {k \in 1..Len(matches[1]) :
                              matches[1][k].gameId # 0}
               byes == {k \in 1..Len(matches[1]) : matches[1][k].isBye}
           IN /\ Cardinality(withGame) = n \div 2
              /\ Cardinality(byes) = n % 2
              /\ tourn'.status = "ongoing"
              /\ tourn'.currentRound = 1 ]_vars

\* C12: every match the creation pass of a next round writes is between two
\* players ranked by their current stored scores: the first scores at least
\* as much as the second, nobody left unpaired scores more than the second,
\* and the player given the trailing bye has the lowest stored score.
C12_PairedByDescendingScore ==
  [][ \A p \in Procs :
        LET l == proc[p]
            all == {l.players[k] : k \in 1..Len(l.players)}
        IN /\ CrcSetMatch(p)
              => LET w == l.players[l.i]
                     b == l.players[l.j]
                 IN /\ tourn.scores[w] >= tourn.scores[b]
                    /\ \A u \in all \ l.paired : tourn.scores[u] <= tourn.scores[b]
           /\ (CrcPair(p) /\ proc'[p].pc = "crc_bye_score")
              => \A u \in all : tourn.scores[u] >= tourn.scores[l.players[l.i]] ]_vars

\* the largest lobby for which the round rule is compared with the code's
MaxLobby == 8

C14_MoveLogAppendOnly ==
  [][ /\ Len(gameDoc'.moves) >= Len(gameDoc.moves)
      /\ \A k \in 1..Len(gameDoc.moves) :
           k <= Len(gameDoc'.moves) => gameDoc'.moves[k].san = gameDoc.moves[k].san
      /\ \A k \in 1..Len(gameDoc'.moves) : gameDoc'.moves[k].moveNumber = k ]_vars

\* C15: a move is applied only to a game that is active in the store and
\* only for the player whose turn the stored position gives (the first
\* player on even ply counts, the second on odd ones); a move dropped in any
\* other case is rejected and changes no field of the game.
C15_MoveRejectedUnlessActiveAndOnTurn ==
  [][ \A c \in Clients :
        LET onTurn == \/ Uid(c) = gameDoc.player1 /\ gameDoc.fen.ply % 2 = 0
                      \/ Uid(c) = gameDoc.player2 /\ gameDoc.fen.ply % 2 = 1
        IN (/\ gameDoc.status # "active" \/ ~onTurn
            /\ \E san \in Sans, outcome \in Outcomes : OnDrop(c, san, outcome))
           => gameDoc' = gameDoc ]_vars

\* C16: offering, accepting or declining a draw and resigning, by either
\* player against a game stored as finished, change neither the status, nor
\* the winner, nor the reason, nor the pending draw offer of the game.
C16_GameActionsNoOpOnceFinished ==
  [][ ( /\ gameDoc.status = "finished"
        /\ \E c \in Clients :
             \/ HandleOfferDraw(c)
             \/ HandleAcceptDraw(c)
             \/ HandleDeclineDraw(c)
             \/ HandleResign(c) )
      => /\ gameDoc'.status = gameDoc.status
         /\ gameDoc'.winner = gameDoc.winner
         /\ gameDoc'.winReason = gameDoc.winReason
         /\ gameDoc'.drawOffer = gameDoc.drawOffer ]_vars

\* C17: accepting a draw takes effect only while the stored pending draw
\* offer is the one of the other player; against a game whose offer has been
\* cleared in the store it finishes nothing and changes no field.
C17_AcceptDrawNeedsStoredOffer ==
  [][ \A c \in Clients :
        ( /\ HandleAcceptDraw(c)
          /\ gameDoc.drawOffer # OpponentPlayerKey(gameDoc, Uid(c)) )
        => gameDoc' = gameDoc ]_vars

\* C18: a game stored as finished has either a winner, or no winner and
\* a draw reason (the draw by agreement, or the draw of the rules), whatever
\* write finished it.
C18_FinishedHasWinnerOrDrawReason ==
  gameDoc.status = "finished"
  => \/ gameDoc.winner # NoUser
     \/ gameDoc.winner = NoUser
        /\ gameDoc.winReason \in {"Draw by Agreement", "Draw"}

\* a call of startTournament or updateTournamentMatchResult that is under
\* way goes on to its next await
Continue(p) ==
  \/ StartSetRound(p)
  \/ StartPair(p)
  \/ StartSetMatch(p)
  \/ StartByeScore(p)
  \/ StartFinish(p)
  \/ UtmQuery(p)
  \/ UtmUpdate(p)
  \/ UtmScore1(p)
  \/ UtmScore2(p)
  \/ CrcRead(p)
  \/ CrcTxSkip(p)
  \/ CrcTxComplete(p)
  \/ CrcTxAdvance(p)
  \/ CrcGet(p)
  \/ CrcPair(p)
  \/ CrcSetMatch(p)
  \/ CrcByeScore(p)

\* the tournament engine with every call under way running to its end: the
\* browser keeps executing an async function whose awaited write or read
\* has resolved
SpecTournFair ==
  InitTourn /\ [][NextTourn]_vars /\ \A p \in Procs : WF_vars(Continue(p))

\* C19: once a game of the tournament is stored as finished, the match of
\* that game in the round of the game is eventually marked completed.
C19_FinishedGameCompletesMatch ==
  \A g \in 1..MaxOps :
    (g <= Len(tournGames) /\ tournGames[g].status = "finished")
    ~> (/\ g <= Len(tournGames)
        /\ LET r == tournGames[g].tournamentRound
               k == MatchOfGame(r, g)
           IN k # 0 /\ matches[r][k].status = "completed")

\* a run of onCreateMatchRequest takes its next step
FnStep(reqId) ==
  \/ FnQuery(reqId)
  \/ \E assignWhite \in BOOLEAN : FnTx(reqId, assignWhite)

\* the quick-match scenario: requesters start a quick match and wait for
\* their game, nobody cancels or leaves
NextQuickMatch ==
  \/ \E u \in PairUsers, tc \in PairTimeControls : QuickMatchQuery(u, tc)
  \/ \E u \in PairUsers : QuickMatchAddDoc(u)
  \/ \E u \in PairUsers : QuickMatchSetRef(u)
  \/ \E u \in PairUsers : QuickMatchListen(u)
  \/ \E u \in PairUsers, i \in 1..MaxGames : ObserveMatch(u, i)
  \/ \E r \in 1..MaxTickets : FnQuery(r)
  \/ \E r \in 1..MaxTickets, assignWhite \in BOOLEAN : FnTx(r, assignWhite)

\* the scenario with every triggered run of the pairing function running to
\* its end: Cloud Functions runs the handler of each created request
SpecQuickMatch ==
  /\ InitMatch
  /\ [][NextQuickMatch]_vars
  /\ \A r \in 1..MaxTickets : WF_vars(FnStep(r))

\* C20: a pairing transaction that commits creates exactly one game, active,
\* with the time control of the two requests and their two requesters in its
\* two seats, and deletes both requests in that same step; and when two
\* requests with the same time control are both stored, eventually one of
\* them is paired by such a transaction.
C20_QuickMatchPairsBoth ==
  /\ [][ \A r \in 1..MaxTickets :
           (fn[r].pc = "tx" /\ fn'[r].pc = "paired")
           => LET p == fn[r].partner
                  g == games'[Len(games')]
              IN /\ Len(games') = Len(games) + 1
                 /\ \A i \in 1..Len(games) : games'[i] = games[i]
                 /\ g.status = "active"
                 /\ reqData[r].timeControl = reqData[p].timeControl
                 /\ g.timeControl = reqData[r].timeControl
                 /\ \/ g.player1 = reqData[r].uid /\ g.player2 = reqData[p].uid
                    \/ g.player1 = reqData[p].uid /\ g.player2 = reqData[r].uid
                 /\ {r, p} \subseteq requests
                 /\ requests' = requests \ {r, p} ]_vars
  /\ \A a, b \in 1..MaxTickets :
       (/\ a < b
        /\ {a, b} \subseteq requests
        /\ reqData[a].timeControl = reqData[b].timeControl)
       ~> (\E i \in 1..Len(consumed) : consumed[i] \cap {a, b} # {})

\* requester u2 created its request after u1, the run for the later request
\* paired the two: one active game holds both and no request is left
C20_Witness ==
  /\ Len(reqData) = 2
  /\ reqData[1].uid = "u1" /\ reqData[2].uid = "u2"
  /\ fn[2].pc = "paired"
  /\ requests = {}
  /\ consumed = <<{1, 2}>>
  /\ Len(games) = 1
  /\ games[1].status = "active"
  /\ games[1].playerIds = {"u1", "u2"}

\* C21: once a cancelled quick-match search has come to rest (the start and
\* the cancel have both run to their end, the requester is in the lobby and
\* not searching), the store holds no request of the requester and the
\* requester's games observer is not running; and a cancel whose request has
\* already been consumed by a pairing changes no document of the store.
C21_CancelLeavesNoTicketNoObserver ==
  /\ [](\A u \in PairUsers :
          (~searching[u] /\ pc[u] = "lobby" /\ cancelPc[u] = "idle")
          => /\ \A r \in requests : reqData[r].uid # u
             /\ ~listening[u])
  /\ [][ \A u \in PairUsers :
           (CancelQuickMatch(u) /\ requestRef[u] \notin requests)
           => requests' = requests /\ games' = games ]_vars

\* C22: when a quick match is started with time control tc while some
\* waiting game of that time control was created by another user, the game
\* the requester goes on to claim is the oldest of those games, also when
\* the requester's own waiting game is older; no request is created first.
C22_ClaimsOldestForeignGame ==
  [][ \A u \in Users, tc \in TimeControls :
        LET foreign == {i \in 1..Len(games) :
                          /\ games[i].status = "waiting"
                          /\ games[i].timeControl = tc
                          /\ games[i].player1 # u}
        IN (QuickMatchQuery(u, tc) /\ foreign # {})
           => /\ claimTarget'[u] \in foreign
              /\ \A j \in foreign : claimTarget'[u] <= j
              /\ pc'[u] = "qm_claim" ]_vars

(***************************************************************************)
(* Video chat signaling of one game: the VideoChat component of each        *)
(* client, the webrtc_signals field of the game document, and the           *)
(* RTCPeerConnection of each client (its signaling state and its            *)
(* operations chain, which runs the queued operations one at a time in the  *)
(* order they were called).  Both players are seated.                       *)
(***************************************************************************)
\* snapshot notifications delivered to the clients of the game
MaxSnapshots == 2

\* candidates the peer connections of the game gather
MaxCands == 2

SigFrame == UNCHANGED <<mmVars, sessVars, tournVars, rematchVars>>

\* gameData.player1?.uid, gameData.player2?.uid
Player1Uid == White
Player2Uid == Black

\* user.uid === player1Uid, taken for everyone but the second player
IsPlayer1_NotPlayer2(u) == u # Player2Uid

\* user.uid === player1Uid
IsPlayer1(u) == u = Player1Uid

\* user.uid === player2Uid
IsPlayer2(u) == u = Player2Uid

\* createGame: webrtc_signals: { offer: null, answer: null, iceCandidates: [] }
NewSignals == [offer |-> "null", answer |-> "null", iceCandidates |-> <<>>]

\* arrayUnion(x) on an array field
ArrayUnion(arr, x) ==
  IF \E k \in 1..Len(arr) : arr[k] = x THEN arr ELSE Append(arr, x)

\* JSON.stringify of the sender tag alone
Stringify_UidOnly(cand) == <<<<"uid", cand.uid>>>>

\* JSON.stringify(cand): the fields of the candidate in the order of the
\* stored map
Stringify(cand) == <<<<"candidate", cand.candidate>>, <<"uid", cand.uid>>>>

\* a write of client c to a field of webrtc_signals, recorded
Recorded(c, field) ==
  [sigHist EXCEPT ![field] = @ + 1, !.writers = @ \cup {c}]

RECURSIVE SumLen(_)
SumLen(S) ==
  IF S = {} THEN 0
  ELSE LET c == CHOOSE x \in S : TRUE
       IN Len(rtc[c].handlers) + SumLen(S \ {c})

\* useEffect of VideoChat: if (!gameId || !canJoinVideo) return; init():
\* pcRef.current = new RTCPeerConnection(servers)
VideoEffect(c) ==
  /\ ~rtc[c].effect
  /\ rtc' = [rtc EXCEPT ![c] =
       IF IsPlayer1(Uid(c)) \/ IsPlayer2(Uid(c))
         THEN [@ EXCEPT !.effect = TRUE, !.pcRef = TRUE, !.initPc = "media"]
         ELSE [@ EXCEPT !.effect = TRUE]]
  /\ UNCHANGED <<signals, sigHist>>
  /\ SigFrame

\* init: getUserMedia resolves or throws; on success the handlers are set,
\* the onSnapshot listener is registered and player 1 calls getDoc
GetUserMedia(c, ok) ==
  /\ rtc[c].initPc = "media"
  /\ rtc' = [rtc EXCEPT ![c] =
       IF ok
         THEN [@ EXCEPT !.listening = TRUE,
                        !.initPc = IF IsPlayer1(Uid(c)) THEN "getdoc"
                                                       ELSE "done"]
         ELSE [@ EXCEPT !.initPc = "failed"]]
  /\ UNCHANGED <<signals, sigHist>>
  /\ SigFrame

\* init, player 1: getDoc(gameRef) resolves: an offer is made if none exists
OfferGetDoc(c) ==
  /\ rtc[c].initPc = "getdoc"
  /\ rtc' = [rtc EXCEPT ![c].initPc =
       IF signals.offer = "null" THEN "offer" ELSE "done"]
  /\ UNCHANGED <<signals, sigHist>>
  /\ SigFrame

\* init, player 1: createOffer, setLocalDescription(offer), updateDoc
OfferWrite(c) ==
  /\ rtc[c].initPc = "offer"
  /\ IF rtc[c].signalingState \in {"stable", "have-local-offer"}
       THEN /\ rtc' = [rtc EXCEPT ![c].initPc = "done",
                                  ![c].signalingState = "have-local-offer",
                                  ![c].localDescription = TRUE]
            /\ signals' = [signals EXCEPT !.offer = c]
            /\ sigHist' = Recorded(c, "offer")
       ELSE /\ rtc' = [rtc EXCEPT ![c].initPc = "done"]
            /\ UNCHANGED <<signals, sigHist>>
  /\ SigFrame

\* user.uid === player2Uid && !signals.answer, the offer not looked at
AnswerFlow_OfferNotRequired(u, s) == IsPlayer2(u) /\ s.answer = "null"

\* user.uid === player2Uid && signals.offer && !signals.answer
AnswerFlow(u, s) == IsPlayer2(u) /\ s.offer # "null" /\ s.answer = "null"

\* the onSnapshot handler is called with the document: the answer flow of
\* player 2, the remote answer of player 1, then the candidates
Snapshot(c) ==
  LET r == rtc[c]
      h == Len(r.handlers) + 1
      u == Uid(c)
  IN /\ r.listening
     /\ SumLen(SigClients) < MaxSnapshots
     /\ rtc' = [rtc EXCEPT ![c] =
          IF AnswerFlow(u, signals) /\ ~r.remoteDescription
            THEN [r EXCEPT
                    !.seen = @ \cup Range(signals.iceCandidates),
                    !.handlers = Append(@, [pos |-> "answer", snap |-> signals,
                                            i |-> 1]),
                    !.chain = Append(@, [h |-> h, op |-> "setRemoteOffer"])]
          ELSE IF IsPlayer1(u) /\ signals.answer # "null"
                  /\ ~r.remoteDescription
            THEN [r EXCEPT
                    !.seen = @ \cup Range(signals.iceCandidates),
                    !.handlers = Append(@, [pos |-> "remote", snap |-> signals,
                                            i |-> 1]),
                    !.chain = Append(@, [h |-> h, op |-> "setRemoteAnswer"])]
          ELSE [r EXCEPT
                  !.seen = @ \cup Range(signals.iceCandidates),
                  !.handlers = Append(@, [pos |-> "cands", snap |-> signals,
                                          i |-> 1])]]
     /\ UNCHANGED <<signals, sigHist>>
     /\ SigFrame

\* the operation at the head of the peer connection's chain runs and
\* settles; the handler that awaits it goes on to its next call:
\* setRemoteDescription(offer) -> createAnswer -> setLocalDescription(answer)
\* -> updateDoc(answer); a rejected operation is caught, and the handler
\* goes on to the candidates
ChainStep(c) ==
  LET r == rtc[c]
      e == Head(r.chain)
      rest == Tail(r.chain)
      toCands == [r.handlers EXCEPT ![e.h].pos = "cands"]
  IN /\ r.chain # <<>>
     /\ CASE e.op = "setRemoteOffer" ->
               /\ rtc' = [rtc EXCEPT ![c] =
                    IF r.signalingState \in {"stable", "have-remote-offer"}
                      THEN [r EXCEPT
                              !.signalingState = "have-remote-offer",
                              !.remoteDescription = TRUE,
                              !.chain = Append(rest, [h |-> e.h,
                                                      op |-> "createAnswer"])]
                      ELSE [r EXCEPT !.chain = rest, !.handlers = toCands]]
               /\ UNCHANGED <<signals, sigHist>>
          [] e.op = "createAnswer" ->
               /\ rtc' = [rtc EXCEPT ![c] =
                    IF r.signalingState = "have-remote-offer"
                      THEN [r EXCEPT
                              !.chain = Append(rest, [h |-> e.h,
                                                      op |-> "setLocalAnswer"])]
                      ELSE [r EXCEPT !.chain = rest, !.handlers = toCands]]
               /\ UNCHANGED <<signals, sigHist>>
          [] e.op = "setLocalAnswer" ->
               IF r.signalingState = "have-remote-offer"
                 THEN /\ rtc' = [rtc EXCEPT ![c] =
                           [r EXCEPT !.signalingState = "stable",
                                     !.localDescription = TRUE,
                                     !.chain = rest, !.handlers = toCands]]
                      /\ signals' = [signals EXCEPT !.answer = c]
                      /\ sigHist' = Recorded(c, "answer")
                 ELSE /\ rtc' = [rtc EXCEPT ![c] =
                           [r EXCEPT !.chain = rest, !.handlers = toCands]]
                      /\ UNCHANGED <<signals, sigHist>>
          [] e.op = "setRemoteAnswer" ->
               /\ rtc' = [rtc EXCEPT ![c] =
                    IF r.signalingState = "have-local-offer"
                      THEN [r EXCEPT !.signalingState = "stable",
                                     !.remoteDescription = TRUE,
                                     !.chain = rest, !.handlers = toCands]
                      ELSE [r EXCEPT !.chain = rest, !.handlers = toCands]]
               /\ UNCHANGED <<signals, sigHist>>
     /\ SigFrame

\* a handler that has returned
DoneHandler == [pos |-> "done", snap |-> NewSignals, i |-> 1]

\* the handler's loop over signals.iceCandidates, one candidate per step:
\* skip my own, skip a processed key, else mark it and call addIceCandidate
\* (applied holds the calls; a rejection is caught and changes nothing)
CandidateStep(c, h) ==
  LET r == rtc[c] IN
  /\ h \in 1..Len(r.handlers)
  /\ r.handlers[h].pos = "cands"
  /\ LET hd == r.handlers[h]
         cands == hd.snap.iceCandidates
     IN rtc' = [rtc EXCEPT ![c] =
          IF hd.i > Len(cands)
            THEN [r EXCEPT !.handlers[h] = DoneHandler]
          ELSE IF cands[hd.i].uid = Uid(c)
                  \/ Stringify(cands[hd.i]) \in r.processed
            THEN [r EXCEPT !.handlers[h].i = @ + 1]
          ELSE [r EXCEPT !.handlers[h].i = @ + 1,
                         !.processed = @ \cup {Stringify(cands[hd.i])},
                         !.applied = @ (+) SetToBag({cands[hd.i]})]]
  /\ UNCHANGED <<signals, sigHist>>
  /\ SigFrame

\* pcRef.current.onicecandidate: a gathered candidate is written with
\* arrayUnion({...candidateJSON, uid: user.uid})
IceCandidate(c, n) ==
  /\ rtc[c].listening
  /\ rtc[c].localDescription
  /\ n = rtc[c].gathered + 1
  /\ sigHist.iceCandidates < MaxCands
  /\ rtc' = [rtc EXCEPT ![c].gathered = n]
  /\ signals' = [signals EXCEPT !.iceCandidates =
       ArrayUnion(@, [candidate |-> <<c, n>>, uid |-> Uid(c)])]
  /\ sigHist' = Recorded(c, "iceCandidates")
  /\ SigFrame

\* a game with both players seated; no VideoChat effect has run yet
InitSignal ==
  /\ signals = NewSignals
  \* the refs of a VideoChat component before its effect has run
  /\ rtc = [c \in SigClients |->
       [effect |-> FALSE, pcRef |-> FALSE, listening |-> FALSE,
        initPc |-> "none", signalingState |-> "stable",
        remoteDescription |-> FALSE, localDescription |-> FALSE,
        chain |-> <<>>, handlers |-> <<>>, processed |-> {},
        applied |-> EmptyBag, gathered |-> 0, seen |-> {}]]
  /\ sigHist = [offer |-> 0, answer |-> 0, iceCandidates |-> 0, writers |-> {}]
  /\ rmGame = [status |-> "none"]
  /\ rmData = [c \in Clients |-> [status |-> "none"]]
  /\ rmNew = <<>>
  /\ rmPc = [c \in Clients |-> "idle"]
  \* no lobby flow, no move, no tournament call is running
  /\ games = <<>>
  /\ reqData = <<>>
  /\ requests = {}
  /\ consumed = <<>>
  /\ pc = [u \in Users |-> "game"]
  /\ selectedTime = [u \in Users |-> 300]
  /\ searching = [u \in Users |-> FALSE]
  /\ claimTarget = [u \in Users |-> 0]
  /\ requestRef = [u \in Users |-> 0]
  /\ listening = [u \in Users |-> FALSE]
  /\ reqCreatedAt = [u \in Users |-> 0]
  /\ cancelPc = [u \in Users |-> "idle"]
  /\ ops = 0
  /\ fn = [r \in 1..MaxTickets |-> [pc |-> "idle", partner |-> 0]]
  /\ gameDoc = [status |-> "none"]
  /\ gameData = [c \in Clients |-> [status |-> "none"]]
  /\ clock = 0
  /\ tourn = [status |-> "none"]
  /\ rounds = <<>>
  /\ matches = <<>>
  /\ tournGames = <<>>
  /\ credited = <<>>
  /\ proc = [p \in Procs |-> IdleProc]

\* one browser per player, and the tournament host
Peers == {"c1", "c2", "c4"}

NextSignal ==
  \/ \E c \in Peers : VideoEffect(c)
  \/ \E c \in Peers, ok \in BOOLEAN : GetUserMedia(c, ok)
  \/ \E c \in Peers : OfferGetDoc(c)
  \/ \E c \in Peers : OfferWrite(c)
  \/ \E c \in Peers : Snapshot(c)
  \/ \E c \in Peers : ChainStep(c)
  \/ \E c \in Peers, h \in 1..MaxSnapshots : CandidateStep(c, h)
  \/ \E c \in Peers, n \in 1..MaxCands : IceCandidate(c, n)

SpecSignal == InitSignal /\ [][NextSignal]_vars

NextSignalTabs ==
  \/ \E c \in SigClients : VideoEffect(c)
  \/ \E c \in SigClients, ok \in BOOLEAN : GetUserMedia(c, ok)
  \/ \E c \in SigClients : OfferGetDoc(c)
  \/ \E c \in SigClients : OfferWrite(c)
  \/ \E c \in SigClients : Snapshot(c)
  \/ \E c \in SigClients : ChainStep(c)
  \/ \E c \in SigClients, h \in 1..MaxSnapshots : CandidateStep(c, h)
  \/ \E c \in SigClients, n \in 1..MaxCands : IceCandidate(c, n)

SpecSignalTabs == InitSignal /\ [][NextSignalTabs]_vars

(***************************************************************************)
(* Rematch: one finished networked game, the game-over dialog of each       *)
(* client (acting on the game data of its last snapshot), and the games     *)
(* that accepted rematches create.                                          *)
(***************************************************************************)
RematchFrame == UNCHANGED <<mmVarsButOps, sessVars, tournVars, sigVars>>


\* handleRematch goes on in online mode only, the tournament not looked at
RematchAllowed_TournamentToo(d) ==
  /\ d.mode = "online"
  /\ d.player1 # NoUser /\ d.player2 # NoUser

\* handleRematch goes on: online mode, no tournamentId, both players present
RematchAllowed(d) ==
  /\ d.mode = "online"
  /\ d.tournamentId = "null"
  /\ d.player1 # NoUser /\ d.player2 # NoUser

\* gameData.timeControl || 300
TimeControlOr300(d) == IF d.timeControl = 0 THEN 300 ELSE d.timeControl

\* the document of an accepted rematch, the slots as in the game before
NewRematchGame_SameSlots(d) ==
  CreateGame(d.player1, d.player2, TimeControlOr300(d), "null")
    @@ [mode |-> d.mode, rematchOffer |-> "null"]

\* the document handleRematch('accept') writes with setDoc
NewRematchGame(d) ==
  CreateGame(d.player2, d.player1, TimeControlOr300(d), "null")
    @@ [mode |-> d.mode, rematchOffer |-> "null"]

\* onSnapshot of the finished game: the client's gameData is the document
RematchDeliver(c) ==
  /\ rmData[c] # rmGame
  /\ rmData' = [rmData EXCEPT ![c] = rmGame]
  /\ UNCHANGED <<rmGame, rmNew, rmPc, ops>>
  /\ RematchFrame

\* handleRematch(myPlayerKey): updateDoc(gameRef, {rematchOffer: myPlayerKey})
OfferRematch(c) ==
  /\ rmPc[c].pc = "idle"
  /\ ops < MaxOps /\ ops' = ops + 1
  /\ rmPc' = [rmPc EXCEPT ![c].last = "offer"]
  /\ IF RematchAllowed(rmData[c])
       THEN /\ rmGame' = [rmGame EXCEPT
                 !.rematchOffer = MyPlayerKey(rmData[c], Uid(c))]
            /\ rmData' = [rmData EXCEPT
                 ![c].rematchOffer = MyPlayerKey(rmData[c], Uid(c))]
       ELSE UNCHANGED <<rmGame, rmData>>
  /\ UNCHANGED rmNew
  /\ RematchFrame

\* handleRematch('accept'): setDoc(newGameRef, {...})
AcceptRematch(c) ==
  /\ rmPc[c].pc = "idle"
  /\ ops < MaxOps /\ ops' = ops + 1
  /\ IF RematchAllowed(rmData[c])
       THEN /\ rmNew' = Append(rmNew, NewRematchGame(rmData[c]))
            /\ rmPc' = [rmPc EXCEPT ![c] =
                 [pc |-> "stamp", newGameId |-> Len(rmNew) + 1,
                  last |-> "accept"]]
       ELSE /\ rmPc' = [rmPc EXCEPT ![c].last = "accept"]
            /\ UNCHANGED rmNew
  /\ UNCHANGED <<rmGame, rmData>>
  /\ RematchFrame

\* handleRematch('accept'): updateDoc(gameRef, {rematchedGameId: newGameId})
AcceptStamp(c) ==
  /\ rmPc[c].pc = "stamp"
  /\ rmGame' = [rmGame EXCEPT !.rematchedGameId = rmPc[c].newGameId]
  /\ rmData' = [rmData EXCEPT ![c].rematchedGameId = rmPc[c].newGameId]
  /\ rmPc' = [rmPc EXCEPT ![c].pc = "idle"]
  /\ UNCHANGED <<rmNew, ops>>
  /\ RematchFrame

\* a finished game, every client showing it: casual or of a tournament,
\* won by either player or drawn
InitRematch ==
  /\ rmGame \in
       {[CreateGame(White, Black, tc, t) EXCEPT
           !.status = "finished", !.winner = w,
           !.winReason = IF w = NoUser THEN "draw" ELSE "resignation"]
          @@ [mode |-> "online", rematchOffer |-> "null",
              rematchedGameId |-> 0] :
        tc \in TimeControls, t \in {"null", "t1"},
        w \in {White, Black, NoUser}}
  /\ rmData = [c \in Clients |-> rmGame]
  /\ rmNew = <<>>
  \* no handleRematch call is between its two writes
  /\ rmPc = [c \in Clients |->
       [pc |-> "idle", newGameId |-> 0, last |-> "none"]]
  /\ signals = [offer |-> "none"]
  /\ rtc = [c \in SigClients |-> [pcRef |-> "none"]]
  /\ sigHist = <<>>
  \* no lobby flow, no move, no tournament call is running
  /\ games = <<>>
  /\ reqData = <<>>
  /\ requests = {}
  /\ consumed = <<>>
  /\ pc = [u \in Users |-> "game"]
  /\ selectedTime = [u \in Users |-> 300]
  /\ searching = [u \in Users |-> FALSE]
  /\ claimTarget = [u \in Users |-> 0]
  /\ requestRef = [u \in Users |-> 0]
  /\ listening = [u \in Users |-> FALSE]
  /\ reqCreatedAt = [u \in Users |-> 0]
  /\ cancelPc = [u \in Users |-> "idle"]
  /\ ops = 0
  /\ fn = [r \in 1..MaxTickets |-> [pc |-> "idle", partner |-> 0]]
  /\ gameDoc = [status |-> "none"]
  /\ gameData = [c \in Clients |-> [status |-> "none"]]
  /\ clock = 0
  /\ tourn = [status |-> "none"]
  /\ rounds = <<>>
  /\ matches = <<>>
  /\ tournGames = <<>>
  /\ credited = <<>>
  /\ proc = [p \in Procs |-> IdleProc]

NextRematch ==
  \/ \E c \in Clients : RematchDeliver(c)
  \/ \E c \in Clients : OfferRematch(c)
  \/ \E c \in Clients : AcceptRematch(c)
  \/ \E c \in Clients : AcceptStamp(c)

SpecRematch == InitRematch /\ [][NextRematch]_vars

(***************************************************************************)
(* The lobby of src/src/App.jsx: GameSetup creates a game with setDoc and   *)
(* joins one with getDoc followed by updateDoc.                             *)
(***************************************************************************)
\* the frame of a step of this lobby
AppFrame ==
  /\ UNCHANGED <<sessVars, tournVars, auxVars>>
  /\ UNCHANGED <<consumed, reqData, requests, selectedTime, searching,
                 requestRef, listening, reqCreatedAt, cancelPc, fn>>

\* handleCreateGame of src/src/App.jsx: the document written with setDoc
AppHandleCreateGame(u, tc) ==
  /\ pc[u] = "lobby"
  /\ ops < MaxOps /\ ops' = ops + 1
  /\ Len(games) < MaxGames
  /\ games' = Append(games,
       [status |-> "waiting", player1 |-> u, player2 |-> NoUser,
        playerIds |-> {u}, timeControl |-> tc, createdAt |-> Now + 1])
  /\ pc' = [pc EXCEPT ![u] = "game"]
  /\ UNCHANGED claimTarget
  /\ AppFrame

\* handleJoinGame of src/src/App.jsx: the Join button of a listed game of
\* another user, onGameStart, and getDoc resolving (the document exists)
AppJoinGetDoc(u, i) ==
  /\ pc[u] = "lobby"
  /\ ops < MaxOps /\ ops' = ops + 1
  /\ i \in 1..Len(games)
  /\ games[i].status = "waiting"
  /\ games[i].player1 # u
  /\ pc' = [pc EXCEPT ![u] = "app_join"]
  /\ claimTarget' = [claimTarget EXCEPT ![u] = i]
  /\ UNCHANGED games
  /\ AppFrame

\* handleJoinGame of src/src/App.jsx: updateDoc(gameRef, {player2,
\* playerIds: [player1 read, me], status: 'active', lastMoveTimestamp})
AppJoinUpdateDoc(u) ==
  /\ pc[u] = "app_join"
  /\ LET g == games[claimTarget[u]]
     IN games' = [games EXCEPT ![claimTarget[u]] =
          [g EXCEPT !.player2 = u, !.playerIds = {g.player1, u},
                    !.status = "active"]]
  /\ pc' = [pc EXCEPT ![u] = "game"]
  /\ UNCHANGED <<claimTarget, ops>>
  /\ AppFrame

NextAppJoin ==
  \/ \E u \in Users, tc \in TimeControls : AppHandleCreateGame(u, tc)
  \/ \E u \in Users, i \in 1..MaxGames : AppJoinGetDoc(u, i)
  \/ \E u \in Users : AppJoinUpdateDoc(u)

SpecAppJoin == InitMatch /\ [][NextAppJoin]_vars

\* C23: each handshake payload is published at most once per session: the
\* offer is written at most once and the answer is written at most once,
\* whatever snapshots the clients are delivered.
C23_HandshakePublishedOnce ==
  /\ sigHist.offer <= 1
  /\ sigHist.answer <= 1

\* C24: in every reachable state of the signaling document the answer is
\* non-null only if the offer is non-null.
C24_AnswerOnlyWithOffer ==
  signals.answer # "null" => signals.offer # "null"

\* an answer has been published
C24_Witness ==
  /\ signals.answer # "null"
  /\ sigHist.answer = 1

\* the candidates of the other slot among the snapshots delivered to c
Foreign(c) == {x \in rtc[c].seen : x.uid # Uid(c)}

\* every handler of c has returned
Settled(c) ==
  \A h \in 1..Len(rtc[c].handlers) : rtc[c].handlers[h].pos = "done"

C27_RunningPlayersHaveScoreEntries ==
  tourn.status = "ongoing" => Range(tourn.players) \subseteq tourn.entries

\* C28: startTournament invoked on a tournament that is not in its lobby, or
\* that has fewer than two players, ends with an error and creates no round,
\* no match and no game and changes no field of the tournament.
C28_StartRejectedWithoutEffect ==
  [][ \A p \in Procs :
        ( /\ (\E q \in Shuffles(tourn.players) : StartRead(p, q))
               \/ StartReject(p)
          /\ tourn.status # "lobby" \/ Len(tourn.players) < 2 )
        => /\ proc'[p].pc = "idle"
           /\ proc'[p].error # "none"
           /\ UNCHANGED <<tourn, rounds, matches, tournGames>> ]_vars

\* a start was rejected on a running tournament whose round, matches and
\* games stand as the first start left them
C28_Witness ==
  /\ tourn.status = "ongoing"
  /\ tourn.currentRound = 1
  /\ \E p \in Procs : proc[p].error = "Tournament already started"

\* C29: a tournament-linked game never accepts a rematch: offering one and
\* accepting one change nothing, in the game and in the games collection.
C29_NoRematchOnTournamentGame ==
  [][ \A c \in Clients :
        ((OfferRematch(c) \/ AcceptRematch(c)) /\ rmGame.tournamentId # "null")
        => /\ UNCHANGED <<rmGame, rmNew>>
           /\ rmPc'[c].pc = "idle" ]_vars

\* on a tournament game one client has offered and another has accepted
C29_Witness ==
  /\ rmGame.tournamentId # "null"
  /\ \E c, d \in Clients : rmPc[c].last = "offer" /\ rmPc[d].last = "accept"
  /\ rmGame.rematchOffer = "null"
  /\ rmNew = <<>>

\* C30: accepting a rematch on a networked game of no tournament creates a
\* new active game with the slots swapped, both clocks at the time control,
\* an empty move log and no result, then stamps the original with the new
\* game's id; the original's result stays as it was.
C30_AcceptCreatesSwappedGame ==
  [][ \A c \in Clients :
        /\ (AcceptRematch(c) /\ rmGame.tournamentId = "null")
           => /\ Len(rmNew') = Len(rmNew) + 1
              /\ SubSeq(rmNew', 1, Len(rmNew)) = rmNew
              /\ LET g == rmNew'[Len(rmNew')]
                 IN /\ g.status = "active"
                    /\ g.player1 = rmGame.player2
                    /\ g.player2 = rmGame.player1
                    /\ g.player1Time = rmGame.timeControl
                    /\ g.player2Time = rmGame.timeControl
                    /\ g.moves = <<>>
                    /\ g.winner = NoUser
                    /\ g.winReason = "null"
              /\ rmGame' = rmGame
              /\ rmPc'[c].pc = "stamp"
        /\ AcceptStamp(c)
           => /\ rmGame' = [rmGame EXCEPT
                   !.rematchedGameId = rmPc[c].newGameId]
              /\ rmPc[c].newGameId \in 1..Len(rmNew)
              /\ UNCHANGED rmNew ]_vars

\* a decided game carries the id of the game its accepted rematch created
C30_Witness ==
  /\ rmGame.rematchedGameId \in 1..Len(rmNew)
  /\ rmGame.winner # NoUser
  /\ rmNew[rmGame.rematchedGameId].player1 = rmGame.player2
  /\ rmNew[rmGame.rematchedGameId].status = "active"

\* the players' actions of a game while no clock runs out: joining, moving,
\* resigning and the draw negotiation
NextDraw ==
  \/ \E c \in Clients : Deliver(c)
  \/ \E c \in Clients : JoinSession(c)
  \/ \E c \in Clients, san \in Sans, outcome \in Outcomes :
       OnDrop(c, san, outcome)
  \/ \E c \in Clients : HandleResign(c)
  \/ \E c \in Clients : HandleOfferDraw(c)
  \/ \E c \in Clients : HandleAcceptDraw(c)
  \/ \E c \in Clients : HandleDeclineDraw(c)

SpecDraw == InitSession /\ [][NextDraw]_vars

\* C31: a draw offered by one player and then declined by the other: the
\* offer writes the offering slot and nothing else, the decline returns the
\* stored offer to null and leaves the status (an active game stays active),
\* the position, the move log and the clocks as they were.
C31_DeclineClearsOfferOnly ==
  [][ \A c \in Clients :
        /\ HandleDeclineDraw(c)
           => /\ gameDoc'.drawOffer = "null"
              /\ gameDoc' = [gameDoc EXCEPT !.drawOffer = "null"]
        /\ HandleOfferDraw(c)
           => gameDoc' = [gameDoc EXCEPT
                            !.drawOffer = MyPlayerKey(gameData[c], Uid(c))]
      ]_vars

\* the two calls made on the tournament game were an offer and its decline
C31_Witness ==
  /\ gameDoc.tournamentId # "null"
  /\ ops = 2
  /\ gameDoc.status = "active"
  /\ gameDoc.drawOffer = "null"
  /\ gameDoc.moves = <<>>
  /\ \E c \in Clients : gameData[c].drawOffer # "null"

\* C32: stored clocks never increase and are charged only to the mover: a
\* stored clock changes only by a move appended while the stored game is
\* active and it is that slot's turn, it is lowered by
\* max(0, now - lastMoveTimestamp), not below 0, and the other slot's stored
\* clock stays as it was.
C32_ClockChargedToMoverOnly ==
  [][ LET elapsed == Max(0, clock - gameDoc.lastMoveTimestamp)
          moved == Len(gameDoc'.moves) = Len(gameDoc.moves) + 1
      IN /\ gameDoc'.player1Time <= gameDoc.player1Time
         /\ gameDoc'.player2Time <= gameDoc.player2Time
         /\ gameDoc'.player1Time # gameDoc.player1Time
              => /\ gameDoc.status = "active" /\ Turn(gameDoc.fen) = "w"
                 /\ moved
                 /\ gameDoc'.player1Time = Max(0, gameDoc.player1Time - elapsed)
                 /\ gameDoc'.player2Time = gameDoc.player2Time
         /\ gameDoc'.player2Time # gameDoc.player2Time
              => /\ gameDoc.status = "active" /\ Turn(gameDoc.fen) = "b"
                 /\ moved
                 /\ gameDoc'.player2Time = Max(0, gameDoc.player2Time - elapsed)
                 /\ gameDoc'.player1Time = gameDoc.player1Time ]_vars

\* C33: handleJoinGame of src/src/App.jsx claims the open slot atomically:
\* of two users who call it on the same waiting game one becomes player2,
\* and the other call leaves player2, playerIds and status as the first set
\* them.
C33_JoinKeepsFilledSlot ==
  [][ \A u \in Users :
        (AppJoinUpdateDoc(u) /\ games[claimTarget[u]].player2 # NoUser)
        => games' = games ]_vars

\* the requesters of a busy lobby, in the order their requests were written
BusyUsers == <<"u1", "u2", "u3">>

\* the ids of their requests
BusyRequests == 1..Len(BusyUsers)

\* the request of the k-th requester
RequestOf(u) == CHOOSE k \in BusyRequests : BusyUsers[k] = u

\* a busy lobby: every user has run startQuickMatch to its end and waits
\* for a game, the requests are in the store, and the runs of
\* onCreateMatchRequest they triggered have not started yet
InitBusy ==
  /\ games = <<>>
  /\ reqData = [k \in BusyRequests |->
                  [uid |-> BusyUsers[k], timeControl |-> 300, createdAt |-> k]]
  /\ requests = BusyRequests
  /\ consumed = <<>>
  /\ pc = [u \in Users |-> "lobby"]
  /\ selectedTime = [u \in Users |-> 300]
  /\ searching = [u \in Users |-> TRUE]
  /\ claimTarget = [u \in Users |-> 0]
  /\ requestRef = [u \in Users |-> RequestOf(u)]
  /\ listening = [u \in Users |-> TRUE]
  /\ reqCreatedAt = [u \in Users |-> RequestOf(u)]
  /\ cancelPc = [u \in Users |-> "idle"]
  /\ ops = Len(BusyUsers)
  /\ fn = [r \in BusyRequests |-> [pc |-> "query", partner |-> 0]]
  /\ gameDoc = [status |-> "none"]
  /\ gameData = [c \in Clients |-> [status |-> "none"]]
  /\ clock = 0
  /\ signals = [offer |-> "none"]
  /\ rtc = [c \in SigClients |-> [pcRef |-> "none"]]
  /\ sigHist = <<>>
  /\ rmGame = [status |-> "none"]
  /\ rmData = [c \in Clients |-> [status |-> "none"]]
  /\ rmNew = <<>>
  /\ rmPc = [c \in Clients |-> "idle"]
  /\ tourn = [status |-> "none"]
  /\ rounds = <<>>
  /\ matches = <<>>
  /\ tournGames = <<>>
  /\ credited = <<>>
  /\ proc = [p \in Procs |-> IdleProc]

\* the waiting requesters and the pairing function
NextBusy ==
  \/ \E u \in Users, i \in 1..MaxGames : ObserveMatch(u, i)
  \/ \E u \in Users : CancelQuickMatch(u)
  \/ \E u \in Users : CancelQuickMatchFinish(u)
  \/ \E r \in BusyRequests : FnQuery(r)
  \/ \E r \in BusyRequests, assignWhite \in BOOLEAN : FnTx(r, assignWhite)

\* every triggered run of the pairing function runs to its end
SpecBusy ==
  /\ InitBusy
  /\ [][NextBusy]_vars
  /\ \A r \in BusyRequests : WF_vars(FnStep(r))

\* C34: pairing strands no compatible requests: whenever two requests of
\* different requesters with the same time control are both in the store,
\* eventually one of them is consumed by a pairing, unless one of them is
\* cancelled.
C34_NoCompatibleRequestsStranded ==
  \A a, b \in BusyRequests :
    (/\ a < b
     /\ {a, b} \subseteq requests
     /\ reqData[a].uid # reqData[b].uid
     /\ reqData[a].timeControl = reqData[b].timeControl)
    ~> \/ \E i \in 1..Len(consumed) : consumed[i] \cap {a, b} # {}
       \/ ~({a, b} \subseteq requests)

\* C35: while the tournament is completed, every game of the tournament is
\* finished and every match of every round is completed, and no step
\* taken from a completed tournament adds a game or a match.
C35_CompletedTournamentIsClosed ==
  /\ [](tourn.status = "completed"
        => /\ \A g \in 1..Len(tournGames) : tournGames[g].status = "finished"
           /\ \A r \in 1..NumRounds : \A k \in 1..Len(matches[r]) :
                matches[r][k].status = "completed")
  /\ [][ tourn.status = "completed"
         => /\ Len(tournGames') = Len(tournGames)
            /\ \A r \in 1..NumRounds : Len(matches'[r]) = Len(matches[r]) ]_vars

\* C36: if the tournament has been started and from some point on every
\* game of the tournament is finished, every call under way running to its
\* end, then the tournament eventually is completed with a winner set.
C36_TournamentTerminates ==
  <>[](/\ tourn.status # "lobby"
       /\ tournGames # <<>>
       /\ \A g \in 1..Len(tournGames) : tournGames[g].status = "finished")
  => <>(tourn.status = "completed" /\ tourn.winnerId # NoUser)

\* handleForceResult of the host, or handleResign / handleAcceptDraw of a
\* player whose snapshot still shows the game active: the updateDoc on a
\* game already finished, with the result of this handler, and the report
\* that follows it
FinishGameAgain(p, g, w) ==
  /\ proc[p].pc = "idle"
  /\ ops < MaxOps /\ ops' = ops + 1
  /\ g \in 1..Len(tournGames)
  /\ tournGames[g].status = "finished"
  /\ w \in {tournGames[g].player1, tournGames[g].player2, NoUser}
  /\ tournGames' = [tournGames EXCEPT ![g].winner = w]
  /\ proc' = [proc EXCEPT ![p] =
       [IdleProc EXCEPT !.pc = "utm_query",
                        !.round = tournGames[g].tournamentRound,
                        !.gameId = g, !.winnerUid = w,
                        !.repeated =
                          IsRepeat(p, tournGames[g].tournamentRound)]]
  /\ UNCHANGED <<tourn, rounds, matches, credited>>
  /\ UNCHANGED <<mmVarsButOps, sessVars, auxVars>>

\* the tournament with results written over finished games
NextOverwrite ==
  \/ \E p \in Procs, q \in Shuffles(tourn.players) : StartRead(p, q)
  \/ \E p \in Procs : StartSetRound(p)
  \/ \E p \in Procs : StartPair(p)
  \/ \E p \in Procs : StartSetMatch(p)
  \/ \E p \in Procs : StartByeScore(p)
  \/ \E p \in Procs : StartFinish(p)
  \/ \E p \in Procs, g \in 1..Len(tournGames), w \in Users \cup {NoUser} :
       FinishGame(p, g, w)
  \/ \E p \in Procs, g \in 1..Len(tournGames), w \in Users \cup {NoUser} :
       FinishGameAgain(p, g, w)
  \/ \E p \in Procs : UtmQuery(p)
  \/ \E p \in Procs : UtmUpdate(p)
  \/ \E p \in Procs : UtmScore1(p)
  \/ \E p \in Procs : UtmScore2(p)
  \/ \E p \in Procs : CrcRead(p)
  \/ \E p \in Procs : CrcTxSkip(p)
  \/ \E p \in Procs : CrcTxComplete(p)
  \/ \E p \in Procs : CrcTxAdvance(p)
  \/ \E p \in Procs : CrcGet(p)
  \/ \E p \in Procs : CrcPair(p)
  \/ \E p \in Procs : CrcSetMatch(p)
  \/ \E p \in Procs : CrcByeScore(p)

SpecOverwrite == InitTourn /\ [][NextOverwrite]_vars

\* C37: every completed match that is not a bye and whose game is finished
\* holds the winner of the game (none for a draw).
C37_MatchWinnerIsGameWinner ==
  \A r \in 1..NumRounds : \A k \in 1..Len(matches[r]) :
    LET mData == matches[r][k] IN
    ( /\ mData.status = "completed"
      /\ ~mData.isBye
      /\ mData.gameId \in 1..Len(tournGames)
      /\ tournGames[mData.gameId].status = "finished" )
    => mData.winnerId = tournGames[mData.gameId].winner

\* C38: no game holds the same user in both of its slots.
C38_SlotsHoldDistinctUsers ==
  \A i \in 1..Len(games) :
    games[i].player2 # NoUser => games[i].player2 # games[i].player1

\* C40: a claim transaction of quick match that fills a game fills a game
\* of the lobby list: a waiting game created inviteOnly is never filled by
\* quick match.
C40_QuickMatchSkipsInviteOnly ==
  [][ \A u \in Users :
        (QuickMatchClaimTx(u) /\ games' # games)
        => ~games[claimTarget[u]].inviteOnly ]_vars

\* a lobby game under way that u1 and u2 have open (view 'game' renders the
\* board and GameClocks for any user): u2 plays black; white is u1, or u3
\* and then u1 is a spectator
InitWatched ==
  /\ \E white \in {White, Host} :
       gameDoc = CreateGame(white, Black, ClockAllotment, "null")
  /\ gameData = [c \in Clients |-> gameDoc]
  /\ clock = 0
  /\ signals = [offer |-> "none"]
  /\ rtc = [c \in SigClients |-> [pcRef |-> "none"]]
  /\ sigHist = <<>>
  /\ rmGame = [status |-> "none"]
  /\ rmData = [c \in Clients |-> [status |-> "none"]]
  /\ rmNew = <<>>
  /\ rmPc = [c \in Clients |-> "idle"]
  \* the lobby flows are not running
  /\ games = <<>>
  /\ reqData = <<>>
  /\ requests = {}
  /\ consumed = <<>>
  /\ pc = [u \in Users |-> "game"]
  /\ selectedTime = [u \in Users |-> 300]
  /\ searching = [u \in Users |-> FALSE]
  /\ claimTarget = [u \in Users |-> 0]
  /\ requestRef = [u \in Users |-> 0]
  /\ listening = [u \in Users |-> FALSE]
  /\ reqCreatedAt = [u \in Users |-> 0]
  /\ cancelPc = [u \in Users |-> "idle"]
  /\ ops = 0
  /\ fn = [r \in 1..MaxTickets |-> [pc |-> "idle", partner |-> 0]]
  \* no tournament is open
  /\ tourn = [status |-> "none"]
  /\ rounds = <<>>
  /\ matches = <<>>
  /\ tournGames = <<>>
  /\ credited = <<>>
  /\ proc = [p \in Procs |-> IdleProc]

\* the watched game: snapshots, time, moves, resignation, the clocks' timeout
NextWatched ==
  \/ \E c \in Clients : Deliver(c)
  \/ Tick
  \/ \E c \in Clients, san \in Sans, outcome \in Outcomes :
       OnDrop(c, san, outcome)
  \/ \E c \in Clients : HandleResign(c)
  \/ \E c \in Clients : HandleTimeout(c)

SpecWatched == InitWatched /\ [][NextWatched]_vars

\* C39: a step of a client that changes the status, the winner or the
\* win reason of the game is a step of one of the two players of the game.
C39_OnlyPlayersEndGame ==
  [][ \A c \in Clients :
        ( /\ \/ HandleTimeout(c)
             \/ HandleResign(c)
             \/ \E san \in Sans, outcome \in Outcomes : OnDrop(c, san, outcome)
          /\ <<gameDoc'.status, gameDoc'.winner, gameDoc'.winReason>>
               # <<gameDoc.status, gameDoc.winner, gameDoc.winReason>> )
        => Uid(c) \in {gameDoc.player1, gameDoc.player2} ]_vars

====
